---------------------------- MODULE Spec2Model ----------------------------
(***************************************************************************)
(* PropertyFinder (src/PropertyFinder.py): the listing extraction cascade, *)
(* validation and deduplication, scoring with lazy description enrichment, *)
(* and the run pipeline around them.                                       *)
(*                                                                         *)
(* Conventions.  A Python str is a sequence of one-character strings, so   *)
(* that lower(), startswith and the `in` substring test are computed.  An  *)
(* optional value (None / absent key) is <<>> and a present value v is     *)
(* <<v>>.  Ratings are in tenths (4.8 is 48); scores are in hundredths     *)
(* (5.0 is 500) so that round(., 1) is an operation that can be got wrong. *)
(***************************************************************************)
EXTENDS Integers, Sequences, FiniteSets, TLC

(* ------------------------------ bounds -------------------------------- *)

\* Longest keyword list tried by the scoring specification.
MaxKw == 7

\* Number of scoring calls made on one listing by the scoring specification.
MaxScoreCalls == 2

\* Most candidates one strategy emits in one parse_listings call.
MaxCand == 3

\* Most embedded application/json script fragments in one page.
MaxFrags == 3

\* Most run calls made on one finder by the specification of repeated runs.
MaxRuns == 2

(* --------------------------- Python values ---------------------------- *)

None == <<>>

Some(v) == <<v>>

IsNone(o) == o = <<>>

Val(o) == o[1]

\* bool(str): a str is truthy iff it is not empty.
Truthy(s) == Len(s) > 0

\* x or y, for an optional number: None and 0 are falsy.
OrElse(o, d) == IF IsNone(o) \/ Val(o) = 0 THEN d ELSE o

LowerChar(c) ==
    CASE c = "A" -> "a" [] c = "B" -> "b" [] c = "C" -> "c" [] c = "D" -> "d"
      [] c = "E" -> "e" [] c = "F" -> "f" [] c = "G" -> "g" [] c = "H" -> "h"
      [] c = "I" -> "i" [] c = "J" -> "j" [] c = "K" -> "k" [] c = "L" -> "l"
      [] c = "M" -> "m" [] c = "N" -> "n" [] c = "O" -> "o" [] c = "P" -> "p"
      [] c = "Q" -> "q" [] c = "R" -> "r" [] c = "S" -> "s" [] c = "T" -> "t"
      [] c = "U" -> "u" [] c = "V" -> "v" [] c = "W" -> "w" [] c = "X" -> "x"
      [] c = "Y" -> "y" [] c = "Z" -> "z" [] OTHER -> c

\* str.lower()
Lower(s) == [i \in 1..Len(s) |-> LowerChar(s[i])]

\* str.startswith(p)
StartsWith(s, p) == Len(s) >= Len(p) /\ SubSeq(s, 1, Len(p)) = p

\* k in t, for two str
IsSubstring(k, t) ==
    \E i \in 0..(Len(t) - Len(k)) : SubSeq(t, i + 1, i + Len(k)) = k

(* ------------------------------ strings ------------------------------- *)

AirbnbPrefix == <<"a","i","r","b","n","b",".","c","o","m">>

WwwAirbnbPrefix == <<"w","w","w",".">> \o AirbnbPrefix

Room1 == AirbnbPrefix \o <<"/","r","o","o","m","s","/","1">>

Loft == <<"L","o","f","t">>

Cabin == <<"C","a","b","i","n">>

Villa == <<"V","i","l","l","a">>

Unknown == <<"U","n","k","n","o","w","n">>

LakeLA == <<"L","a","k","e",","," ","L","A">>

PoolDesc == <<"H","e","a","t","e","d"," ","p","o","o","l">>

\* Keywords a caller may supply: one matched by a name whatever the case,
\* one matched only by a fetched description.
KwLoft == <<"l","o","f","t">>

KwPool == <<"P","O","O","L">>

Space == <<" ">>

(* ------------------------------ listings ------------------------------ *)

\* A listing dict: name, location, price_per_night, rating, and the two keys
\* that scoring adds (description, match_score), absent until then.
Listing(n, l, p, r) ==
    [name |-> n, location |-> l, price_per_night |-> p, rating |-> r,
     description |-> None, match_score |-> None]

(* ------------------------- scoring & validation ----------------------- *)

BaseScore == 500

KeywordStep == 50

LowPrice == 100

MidPrice == 150

DefaultPrice == 150

LowBonus == 200

MidBonus == 100

MaxScore == 1000

MaxRating == 50

\* round(x, 1) of a score in hundredths: to the nearest tenth, ties to even.
Round1(h) ==
    LET q == h \div 10
        r == h % 10
    IN  10 * (IF r > 5 \/ (r = 5 /\ q % 2 = 1) THEN q + 1 ELSE q)

\* _is_valid: price is "price_per_night or price" (no listing carries a
\* "price" key, so a falsy price_per_night becomes None).
is_valid(listing) ==
    /\ Truthy(listing.name)
    /\ LET price == OrElse(listing.price_per_night, None)
       IN  ~(~IsNone(price) /\ Val(price) <= 0)
    /\ ~(~IsNone(listing.rating)
           /\ ~(0 <= Val(listing.rating) /\ Val(listing.rating) <= MaxRating))

\* The name test that guards the description fetch.
IsListingUrl(name) ==
    StartsWith(name, AirbnbPrefix) \/ StartsWith(name, WwwAirbnbPrefix)

\* listing.get("description", "")
CachedDescription(listing) ==
    IF IsNone(listing.description) THEN <<>> ELSE Val(listing.description)

\* _calculate_score fetches when the name is a listing URL and the cached
\* description is falsy.
NeedsFetch(listing) ==
    IsListingUrl(listing.name) /\ ~Truthy(CachedDescription(listing))

\* Number of keywords of kws found in text (each list element counts).
RECURSIVE KeywordHits(_, _)
KeywordHits(kws, text) ==
    IF kws = <<>> THEN 0
    ELSE (IF IsSubstring(Lower(Head(kws)), text) THEN 1 ELSE 0)
         + KeywordHits(Tail(kws), text)

PriceBonus(listing) ==
    LET price == Val(OrElse(listing.price_per_night, Some(DefaultPrice)))
    IN  IF price < LowPrice THEN LowBonus
        ELSE IF price < MidPrice THEN MidBonus ELSE 0

\* The score before the clamp and the rounding.
RawScore(listing, description, kws) ==
    LET text_to_check ==
            Lower(description \o Space \o listing.name \o Space \o listing.location)
    IN  BaseScore + KeywordStep * KeywordHits(kws, text_to_check)
        + PriceBonus(listing)

Min(a, b) == IF a < b THEN a ELSE b

\* The return expression without min(score, 10.0).
FinalScoreNoClamp(raw) == Round1(raw)

\* round(min(score, 10.0), 1)
FinalScore(raw) == Round1(Min(raw, MaxScore))

\* What the description fetch can come to: a scrape that raises, a page with no
\* description, a page with one.
FetchOutcomes == {"fail", "empty", "desc"}

\* A fetch whose except clause returns a description whatever happened.
fetch_description_any(outcome) == PoolDesc

\* _fetch_description's return value for an outcome.
fetch_description(outcome) == IF outcome = "desc" THEN PoolDesc ELSE <<>>

\* _calculate_score on a listing that needs no fetch, or after the fetch came to
\* outcome: the listing (description cached when fetched) with its score.
calculate_score(listing, kws, fetched, outcome) ==
    LET description ==
            IF ~IsListingUrl(listing.name) THEN <<>>
            ELSE IF fetched THEN fetch_description(outcome)
            ELSE CachedDescription(listing)
        cached == IF fetched THEN [listing EXCEPT !.description = Some(description)]
                  ELSE listing
    IN  [cached EXCEPT !.match_score = Some(FinalScore(RawScore(listing, description, kws)))]

(* ------------------------------ keywords ------------------------------ *)

Letters ==
    {"a","b","c","d","e","f","g","h","i","j","k","l","m",
     "n","o","p","q","r","s","t","u","v","w","x","y","z"}

DigitChars == <<"0","1","2","3","4","5","6","7","8","9">>

\* \w of the regex engine, on lowered text: letters, digits and underscore.
IsWordChar(c) == c \in Letters \/ c = "_" \/ (\E d \in 1..10 : DigitChars[d] = c)

\* The stop words of _extract_keywords.
StopWords ==
    { <<"f","i","n","d">>,
      <<"l","o","o","k","i","n","g">>,
      <<"f","o","r">>,
      <<"i","n">>,
      <<"t","h","e">>,
      <<"a">>,
      <<"a","n">>,
      <<"w","i","t","h">>,
      <<"n","e","a","r">>,
      <<"c","h","e","a","p">>,
      <<"a","f","f","o","r","d","a","b","l","e">>,
      <<"w","a","n","t">>,
      <<"n","e","e","d">>,
      <<"p","l","e","a","s","e">>,
      <<"s","h","o","w">>,
      <<"s","e","a","r","c","h">>,
      <<"a","p","a","r","t","m","e","n","t">>,
      <<"a","p","a","r","t","m","e","n","t","s">>,
      <<"h","o","u","s","e">>,
      <<"h","o","u","s","e","s">>,
      <<"r","o","o","m">>,
      <<"r","o","o","m","s">>,
      <<"p","r","o","p","e","r","t","y">>,
      <<"p","r","o","p","e","r","t","i","e","s">>,
      <<"l","i","s","t","i","n","g">>,
      <<"l","i","s","t","i","n","g","s">> }

MinWordLen == 3

\* re.findall(r'\b[a-zA-Z]{3,}\b', text): the maximal runs of word characters
\* that are letters only and at least three long.  run is the run being read,
\* pure whether it holds letters only.
RECURSIVE FindWords(_, _, _)
FindWords(text, run, pure) ==
    LET closed == IF pure /\ Len(run) >= MinWordLen THEN <<run>> ELSE <<>>
    IN  IF text = <<>> THEN closed
        ELSE IF IsWordChar(Head(text))
             THEN FindWords(Tail(text), Append(run, Head(text)),
                            pure /\ Head(text) \in Letters)
             ELSE closed \o FindWords(Tail(text), <<>>, TRUE)

\* _extract_keywords
extract_keywords(p) ==
    SelectSeq(FindWords(Lower(p), <<>>, TRUE), LAMBDA w : w \notin StopWords)

(* ------------------------- model-based strategy ----------------------- *)

UnknownProperty ==
    <<"U","n","k","n","o","w","n"," ","P","r","o","p","e","r","t","y">>

\* One element of the model's "listings" array: each key present or missing.
AIItem(n, l, p, r) == [name |-> n, location |-> l, price |-> p, rating |-> r]

\* The normalisation of one element.
NormalizeItem(item) ==
    Listing(IF IsNone(item.name) THEN UnknownProperty ELSE Val(item.name),
            IF IsNone(item.location) \/ ~Truthy(Val(item.location))
            THEN Unknown ELSE Val(item.location),
            item.price,
            item.rating)

\* Ways the model collaborator fails inside _extract_with_ai's try block.
AIFailures == {"client_error", "api_error", "timeout", "bad_json", "bad_item"}

\* What _extract_with_ai returns for a response that parsed as JSON: a bare
\* array has no .get, so the attribute error is caught and [] returned.
NormalizeResponse(shape, items) ==
    IF shape = "array" THEN <<>>
    ELSE [i \in 1..Len(items) |-> NormalizeItem(items[i])]

(* --------------------------- regex strategy --------------------------- *)

RegexCap == 10

RECURSIVE IntToStr(_)
IntToStr(n) ==
    IF n < 10 THEN <<DigitChars[n + 1]>>
    ELSE IntToStr(n \div 10) \o <<DigitChars[(n % 10) + 1]>>

\* f"Property {i + 1}", for the 1-based position k = i + 1.
PropertyName(k) == <<"P","r","o","p","e","r","t","y"," ">> \o IntToStr(k)

\* A zip that is not capped.
regex_parse_uncapped(prices, ratings, property_urls, locations) ==
    [k \in 1..Min(Len(prices), Len(ratings)) |->
        Listing(IF k <= Len(property_urls) THEN property_urls[k]
                ELSE PropertyName(k),
                IF k <= Len(locations) THEN locations[k] ELSE Unknown,
                Some(prices[k]),
                Some(ratings[k]))]

\* The zip of _regex_parse over the four token streams found in the page.
regex_parse(prices, ratings, property_urls, locations) ==
    LET count == Min(Min(Len(prices), Len(ratings)), RegexCap)
    IN  [k \in 1..count |->
            Listing(IF k <= Len(property_urls) THEN property_urls[k]
                    ELSE PropertyName(k),
                    IF k <= Len(locations) THEN locations[k] ELSE Unknown,
                    Some(prices[k]),
                    Some(ratings[k]))]

(* ------------------------------ ranking ------------------------------- *)

\* x.get("match_score", 0)
ScoreKey(x) == IF IsNone(x.match_score) THEN 0 ELSE Val(x.match_score)

RECURSIVE InsertDesc(_, _)
InsertDesc(x, s) ==
    IF s = <<>> THEN <<x>>
    ELSE IF ScoreKey(Head(s)) >= ScoreKey(x)
         THEN <<Head(s)>> \o InsertDesc(x, Tail(s))
         ELSE <<x>> \o s

RECURSIVE SortInto(_, _)
SortInto(s, acc) ==
    IF s = <<>> THEN acc ELSE SortInto(Tail(s), InsertDesc(Head(s), acc))

RECURSIVE InsertAsc(_, _)
InsertAsc(x, s) ==
    IF s = <<>> THEN <<x>>
    ELSE IF ScoreKey(Head(s)) <= ScoreKey(x)
         THEN <<Head(s)>> \o InsertAsc(x, Tail(s))
         ELSE <<x>> \o s

RECURSIVE SortIntoAsc(_, _)
SortIntoAsc(s, acc) ==
    IF s = <<>> THEN acc ELSE SortIntoAsc(Tail(s), InsertAsc(Head(s), acc))

Reverse(s) == [i \in 1..Len(s) |-> s[Len(s) + 1 - i]]

\* sorted(xs, key=score)[::-1]: descending, but ties come out reversed.
sorted_then_reversed(xs) == Reverse(SortIntoAsc(xs, <<>>))

\* sorted(xs, key=score, reverse=True): descending and stable.
sorted_desc(xs) == SortInto(xs, <<>>)

(* ------------------------ structured-data miner ----------------------- *)

\* A parsed JSON value, as json.loads returns it: None, a bool, a number (in
\* tenths, an int or a float), a str, a list, or a dict (its items in the order
\* of the text, each a pair <<key, value>>).
JNull == [t |-> "null"]

JBool(b) == [t |-> "bool", b |-> b]

JInt(n) == [t |-> "num", tenths |-> 10 * n, float |-> FALSE]

JFloat(tenths) == [t |-> "num", tenths |-> tenths, float |-> TRUE]

JStr(chars) == [t |-> "str", s |-> chars]

JArr(items) == [t |-> "arr", items |-> items]

JObj(kv) == [t |-> "obj", kv |-> kv]

\* bool(v)
TruthyJ(v) ==
    CASE v.t = "null" -> FALSE
      [] v.t = "bool" -> v.b
      [] v.t = "num"  -> v.tenths # 0
      [] v.t = "str"  -> Len(v.s) > 0
      [] v.t = "arr"  -> Len(v.items) > 0
      [] v.t = "obj"  -> Len(v.kv) > 0

\* a or b
Or2(a, b) == IF TruthyJ(a) THEN a ELSE b

\* d.get(k) for a dict d
Get(d, k) ==
    IF \E i \in 1..Len(d.kv) : d.kv[i][1] = k
    THEN d.kv[CHOOSE i \in 1..Len(d.kv) : d.kv[i][1] = k][2]
    ELSE JNull

\* list(d.values())
Values(d) == [i \in 1..Len(d.kv) |-> d.kv[i][2]]

IsDigit(c) == \E d \in 1..10 : DigitChars[d] = c

DigitVal(c) == (CHOOSE d \in 1..10 : DigitChars[d] = c) - 1

\* str(x) of a number: an int prints its digits, a float also its decimal.
NumStr(v) ==
    LET a == IF v.tenths < 0 THEN -v.tenths ELSE v.tenths
        sign == IF v.tenths < 0 THEN <<"-">> ELSE <<>>
    IN  IF v.float THEN sign \o IntToStr(a \div 10) \o <<".">> \o IntToStr(a % 10)
        ELSE sign \o IntToStr(a \div 10)

RECURSIVE Repr(_)
RECURSIVE ReprItems(_)
RECURSIVE ReprPairs(_)
\* repr(v), which is what str() of a list or dict is made of.
Repr(v) ==
    CASE v.t = "null" -> <<"N","o","n","e">>
      [] v.t = "bool" -> IF v.b THEN <<"T","r","u","e">> ELSE <<"F","a","l","s","e">>
      [] v.t = "num"  -> NumStr(v)
      [] v.t = "str"  -> <<"'">> \o v.s \o <<"'">>
      [] v.t = "arr"  -> <<"[">> \o ReprItems(v.items) \o <<"]">>
      [] v.t = "obj"  -> <<"{">> \o ReprPairs(v.kv) \o <<"}">>

ReprItems(items) ==
    IF items = <<>> THEN <<>>
    ELSE Repr(Head(items))
         \o (IF Len(items) > 1 THEN <<",", " ">> \o ReprItems(Tail(items)) ELSE <<>>)

ReprPairs(kv) ==
    IF kv = <<>> THEN <<>>
    ELSE <<"'">> \o Head(kv)[1] \o <<"'", ":", " ">> \o Repr(Head(kv)[2])
         \o (IF Len(kv) > 1 THEN <<",", " ">> \o ReprPairs(Tail(kv)) ELSE <<>>)

\* str(v)
Str(v) == IF v.t = "str" THEN v.s ELSE Repr(v)

Whitespace == {" ", "\t", "\n"}

\* str.strip()
RECURSIVE LStrip(_)
LStrip(chars) ==
    IF chars # <<>> /\ Head(chars) \in Whitespace THEN LStrip(Tail(chars)) ELSE chars

Strip(chars) == Reverse(LStrip(Reverse(LStrip(chars))))

\* The keys the miner reads.
KName == <<"n","a","m","e">>

KTitle == <<"t","i","t","l","e">>

KPrice == <<"p","r","i","c","e">>

KPriceString == <<"p","r","i","c","e","S","t","r","i","n","g">>

KPriceValue == <<"p","r","i","c","e","V","a","l","u","e">>

KRating == <<"r","a","t","i","n","g">>

KStarRating == <<"s","t","a","r","R","a","t","i","n","g">>

KAvgRating == <<"a","v","g","R","a","t","i","n","g">>

KLocation == <<"l","o","c","a","t","i","o","n">>

KCity == <<"c","i","t","y">>

KNeighborhood == <<"n","e","i","g","h","b","o","r","h","o","o","d">>

KSubtitle == <<"s","u","b","t","i","t","l","e">>

\* The position of the leftmost digit of chars, 0 if there is none.
DigitStart(chars) ==
    IF \E i \in 1..Len(chars) : IsDigit(chars[i])
    THEN CHOOSE i \in 1..Len(chars) :
            IsDigit(chars[i]) /\ \A h \in 1..(i - 1) : ~IsDigit(chars[h])
    ELSE 0

\* The end of the maximal digit run that starts at i (i - 1 if it is empty).
RunEnd(chars, i) ==
    CHOOSE j \in (i - 1)..Len(chars) :
        /\ \A h \in i..j : IsDigit(chars[h])
        /\ j = Len(chars) \/ ~IsDigit(chars[j + 1])

\* int(digits)
RECURSIVE ParseInt(_)
ParseInt(digits) ==
    IF digits = <<>> THEN 0
    ELSE 10 * ParseInt(SubSeq(digits, 1, Len(digits) - 1))
         + DigitVal(digits[Len(digits)])

\* re.search(r"\$?(\d+)", s) and int(group(1)): the leftmost digit run, None
\* if there is no match.
price_match(chars) ==
    LET i == DigitStart(chars)
    IN  IF i = 0 THEN None ELSE Some(ParseInt(SubSeq(chars, i, RunEnd(chars, i))))

\* re.search(r"(\d+\.?\d*)", s) and float(group(1)), in tenths: the leftmost
\* digit run, and the first decimal after its point if there is one (the
\* decimals beyond the first are not kept by a value in tenths).
rating_match(chars) ==
    LET i == DigitStart(chars)
        e == RunEnd(chars, i)
        point == e + 1 <= Len(chars) /\ chars[e + 1] = "."
    IN  IF i = 0 THEN None
        ELSE Some(10 * ParseInt(SubSeq(chars, i, e))
                  + (IF point /\ RunEnd(chars, e + 2) >= e + 2
                     THEN DigitVal(chars[e + 2]) ELSE 0))

\* What a call of the miner comes to: an exception, or the listings found.
MineRaised == [raises |-> TRUE, results |-> <<>>]

MineFound(ls) == [raises |-> FALSE, results |-> ls]

RECURSIVE extract_from_json(_)
RECURSIVE MineEach(_)
\* The two loops of _extract_from_json: the results of each value in turn; an
\* exception of one call ends the whole.
MineEach(values) ==
    IF values = <<>> THEN MineFound(<<>>)
    ELSE LET first == extract_from_json(Head(values))
             rest == MineEach(Tail(values))
         IN  IF first.raises \/ rest.raises THEN MineRaised
             ELSE MineFound(first.results \o rest.results)

\* Lines 407-433, the node's own candidate.  (x or "").strip() raises
\* AttributeError when x is truthy and no str.
node_listing(data) ==
    LET name_raw == Or2(Or2(Get(data, KName), Get(data, KTitle)), JStr(<<>>))
        price_raw ==
            Str(Or2(Or2(Or2(Get(data, KPrice), Get(data, KPriceString)),
                        Get(data, KPriceValue)), JStr(<<>>)))
        rating_raw ==
            Str(Or2(Or2(Or2(Get(data, KRating), Get(data, KStarRating)),
                        Get(data, KAvgRating)), JStr(<<>>)))
        loc == Or2(Or2(Or2(Or2(Get(data, KLocation), Get(data, KCity)),
                           Get(data, KNeighborhood)), Get(data, KSubtitle)),
                   JStr(<<>>))
        location ==
            IF loc.t = "obj"
            THEN Or2(Or2(Get(loc, KName), Get(loc, KCity)), JStr(<<>>))
            ELSE loc
        name == Strip(name_raw.s)
    IN  IF name_raw.t # "str" THEN MineRaised
        ELSE IF Truthy(name)
                /\ (~IsNone(price_match(price_raw))
                      \/ ~IsNone(rating_match(rating_raw)))
        THEN MineFound(<<Listing(name,
                                 IF TruthyJ(location) THEN Str(location)
                                 ELSE Unknown,
                                 price_match(price_raw),
                                 rating_match(rating_raw))>>)
        ELSE MineFound(<<>>)

\* _extract_from_json
extract_from_json(data) ==
    IF data.t = "obj"
    THEN LET own == node_listing(data)
             nested == MineEach(Values(data))
         IN  IF own.raises \/ nested.raises THEN MineRaised
             ELSE MineFound(own.results \o nested.results)
    ELSE IF data.t = "arr" THEN MineEach(data.items)
    ELSE MineFound(<<>>)

(* ------------------------- regex token streams ------------------------ *)

UpperLetters ==
    {"A","B","C","D","E","F","G","H","I","J","K","L","M",
     "N","O","P","Q","R","S","T","U","V","W","X","Y","Z"}

\* \w of the regex engine: letters of either case, digits and underscore.
IsWord(c) == IsWordChar(LowerChar(c))

\* The least element of a non-empty set of positions: where the leftmost match
\* of a pattern starts.
FirstOf(S) == CHOOSE i \in S : \A h \in S : i <= h

\* re.sub(r"<[^>]+>", " ", html), from position i on.  TagEnd(j) is the end of
\* the match that starts at j, 0 if there is none: the first ">" behind j,
\* with at least one character in between.
RECURSIVE StripTags(_, _)
StripTags(chars, i) ==
    LET TagEnd(j) ==
            IF /\ chars[j] = "<"
               /\ \E e \in (j + 2)..Len(chars) :
                      chars[e] = ">" /\ \A h \in (j + 1)..(e - 1) : chars[h] # ">"
            THEN CHOOSE e \in (j + 2)..Len(chars) :
                      chars[e] = ">" /\ \A h \in (j + 1)..(e - 1) : chars[h] # ">"
            ELSE 0
        opens == {j \in i..Len(chars) : TagEnd(j) > 0}
    IN  IF opens = {} THEN SubSeq(chars, i, Len(chars))
        ELSE SubSeq(chars, i, FirstOf(opens) - 1) \o <<" ">>
             \o StripTags(chars, TagEnd(FirstOf(opens)) + 1)

\* re.sub(r"\s+", " ", text): the first character of each run of whitespace
\* becomes a space and the rest of the run goes.
CollapseSpace(chars) ==
    LET marked == [i \in 1..Len(chars) |->
                     [c |-> IF chars[i] \in Whitespace THEN " " ELSE chars[i],
                      inRun |-> /\ i > 1
                                /\ chars[i] \in Whitespace
                                /\ chars[i - 1] \in Whitespace]]
        kept == SelectSeq(marked, LAMBDA m : ~m.inRun)
    IN  [i \in 1..Len(kept) |-> kept[i].c]

\* re.findall(r"\$(\d+)", text), scanning from position i.  PriceEnd(j) is the
\* end of the match that starts at j, 0 if there is none.
RECURSIVE find_prices(_, _)
find_prices(text, i) ==
    LET PriceEnd(j) ==
            IF text[j] = "$" /\ RunEnd(text, j + 1) >= j + 1
            THEN RunEnd(text, j + 1) ELSE 0
        starts == {j \in i..Len(text) : PriceEnd(j) > 0}
    IN  IF starts = {} THEN <<>>
        ELSE <<SubSeq(text, FirstOf(starts) + 1, PriceEnd(FirstOf(starts)))>>
             \o find_prices(text, PriceEnd(FirstOf(starts)) + 1)

\* re.findall(r"\b([4-5]\.\d{1,2})\b", text), scanning from position i.
\* Boundary(j) is \b between positions j and j + 1 (0 and Len(text) are the
\* ends of the text); RatingEnd(j) is the end of the match that starts at j,
\* 0 if there is none: two decimals are tried before one.
RECURSIVE find_ratings(_, _)
find_ratings(text, i) ==
    LET Boundary(j) ==
            (j >= 1 /\ IsWord(text[j])) # (j + 1 <= Len(text) /\ IsWord(text[j + 1]))
        RatingEnd(j) ==
            IF /\ text[j] \in {"4", "5"}
               /\ Boundary(j - 1)
               /\ j + 2 <= Len(text)
               /\ text[j + 1] = "."
               /\ IsDigit(text[j + 2])
            THEN IF j + 3 <= Len(text) /\ IsDigit(text[j + 3]) /\ Boundary(j + 3)
                 THEN j + 3
                 ELSE IF Boundary(j + 2) THEN j + 2 ELSE 0
            ELSE 0
        starts == {j \in i..Len(text) : RatingEnd(j) > 0}
    IN  IF starts = {} THEN <<>>
        ELSE <<SubSeq(text, FirstOf(starts), RatingEnd(FirstOf(starts)))>>
             \o find_ratings(text, RatingEnd(FirstOf(starts)) + 1)

\* float(token) of a rating token, in tenths (the pages of the regex
\* specification carry no rating with a hundredths digit other than 0).
rating_value(token) == 10 * DigitVal(token[1]) + DigitVal(token[3])

RoomsPath == <<"/","r","o","o","m","s","/">>

\* re.findall(r'/rooms/(\d+)', html) with f"airbnb.com/rooms/{url}", scanning
\* from position i.  RoomsEnd(j) is the end of the match that starts at j, 0
\* if there is none.
RECURSIVE find_rooms(_, _)
find_rooms(page, i) ==
    LET RoomsEnd(j) ==
            LET d == j + Len(RoomsPath)
            IN  IF /\ d <= Len(page)
                   /\ SubSeq(page, j, d - 1) = RoomsPath
                   /\ RunEnd(page, d) >= d
                THEN RunEnd(page, d) ELSE 0
        starts == {j \in i..Len(page) : RoomsEnd(j) > 0}
    IN  IF starts = {} THEN <<>>
        ELSE <<AirbnbPrefix \o RoomsPath
               \o SubSeq(page, FirstOf(starts) + Len(RoomsPath),
                         RoomsEnd(FirstOf(starts)))>>
             \o find_rooms(page, RoomsEnd(FirstOf(starts)) + 1)

\* A de-duplication that keeps every element.
from_keys_all(xs, seen) == xs

\* list(dict.fromkeys(xs)): the first occurrence of each element, in order.
RECURSIVE from_keys(_, _)
from_keys(xs, seen) ==
    IF xs = <<>> THEN <<>>
    ELSE IF Head(xs) \in seen THEN from_keys(Tail(xs), seen)
         ELSE <<Head(xs)>> \o from_keys(Tail(xs), seen \cup {Head(xs)})

\* re.findall(r"([A-Z][a-z]+(?:\s+[A-Z][a-z]+){0,2},?\s+[A-Z]{2})", text),
\* scanning from position i.  SpanEnd(j, set) is the end of the maximal run of
\* characters of set that starts at j (j - 1 if it is empty); CapWordEnd(j)
\* the end of "[A-Z][a-z]+" at j; NextCapWordEnd(e) the end of
\* "\s+[A-Z][a-z]+" behind e; StateEnd(e) the end of ",?\s+[A-Z]{2}" behind e
\* (each 0 if there is no match); LocationEnd(j) the end of the match that
\* starts at j: up to two further capitalised words, the most tried first.
RECURSIVE find_locations(_, _)
find_locations(text, i) ==
    LET SpanEnd(j, set) ==
            CHOOSE e \in (j - 1)..Len(text) :
                /\ \A h \in j..e : text[h] \in set
                /\ e = Len(text) \/ text[e + 1] \notin set
        CapWordEnd(j) ==
            IF /\ j + 1 <= Len(text)
               /\ text[j] \in UpperLetters
               /\ text[j + 1] \in Letters
            THEN SpanEnd(j + 1, Letters) ELSE 0
        NextCapWordEnd(e) ==
            IF e = 0 THEN 0
            ELSE LET s == SpanEnd(e + 1, Whitespace)
                 IN  IF s >= e + 1 THEN CapWordEnd(s + 1) ELSE 0
        StateEnd(e) ==
            IF e = 0 THEN 0
            ELSE LET c == IF e + 1 <= Len(text) /\ text[e + 1] = ","
                          THEN e + 1 ELSE e
                     s == SpanEnd(c + 1, Whitespace)
                 IN  IF /\ s >= c + 1
                        /\ s + 2 <= Len(text)
                        /\ text[s + 1] \in UpperLetters
                        /\ text[s + 2] \in UpperLetters
                     THEN s + 2 ELSE 0
        LocationEnd(j) ==
            LET e0 == CapWordEnd(j)
                e1 == NextCapWordEnd(e0)
                e2 == NextCapWordEnd(e1)
            IN  IF StateEnd(e2) > 0 THEN StateEnd(e2)
                ELSE IF StateEnd(e1) > 0 THEN StateEnd(e1)
                ELSE StateEnd(e0)
        starts == {j \in i..Len(text) : LocationEnd(j) > 0}
    IN  IF starts = {} THEN <<>>
        ELSE <<SubSeq(text, FirstOf(starts), LocationEnd(FirstOf(starts)))>>
             \o find_locations(text, LocationEnd(FirstOf(starts)) + 1)

\* _regex_parse: the token streams of the page, then the zip.
regex_parse_html(page) ==
    LET text == CollapseSpace(StripTags(page, 1))
        prices == find_prices(text, 1)
        ratings == find_ratings(text, 1)
        property_urls == from_keys(find_rooms(page, 1), {})
        locations == find_locations(text, 1)
    IN  regex_parse([k \in 1..Len(prices) |-> ParseInt(prices[k])],
                    [k \in 1..Len(ratings) |-> rating_value(ratings[k])],
                    property_urls,
                    [k \in 1..Len(locations) |-> Strip(locations[k])])

(* ------------------------------- state -------------------------------- *)

VARIABLES
    pc,          \* position of the caller in run / parse_listings
    prompt,      \* the prompt run was called with
    keywords,    \* self.keywords
    session,     \* self.session: "none" or "open"
    results,     \* self.results
    listings,    \* parse_listings' local listings
    frags,       \* embedded JSON fragments still to be mined
    idx,         \* candidates of listings already validated
    valid,       \* parse_listings' local valid
    seen_names,  \* parse_listings' local seen_names
    ranked,      \* run's return value, None until it returns
    saved,       \* the persisted document, None until written
    exc,         \* the exception propagating to the caller, "none" if none
    invoked,     \* history: the strategies invoked by this parse_listings call
    aiOutcome,   \* history: how the model collaborator answered
    aiCount,     \* history: candidates _extract_with_ai returned, -1 if none yet
    nEmitted,    \* history: candidates the cascade handed to validation, -1 if none yet
    fetches,     \* history: description fetches made
    nScored,     \* history: calls of _calculate_score made by parse_listings
    released,    \* history: session releases attempted
    runs,        \* history: run calls this finder has returned from
    supplied,    \* history: the keyword list the finder was constructed with
    acquired,    \* history: whether this run's start_session created a session
    lastFetch,   \* history: what the loop's last description fetch came to
    sources,     \* history: the strategies whose candidates are in listings
    lastFrag,    \* history: how the last fragment handled went
    sListing,    \* scoring specification: the listing scored
    sCalls,      \* scoring specification: scoring calls made
    sRaw,        \* scoring specification: the last call's score before the clamp
    data,        \* mining specification: the parsed JSON value
    mined,       \* mining specification: what the miner came to, None before
    html,        \* regex specification: the page handed to _regex_parse
    parsed,      \* regex specification: what _regex_parse returned, None before
    aiData,      \* model response specification: the parsed response
    normalized,  \* model response specification: what _extract_with_ai returned
    scraped,     \* SwampFinder specification: what the page scrapes return
    swamps       \* SwampFinder specification: the listings extracted, None before

instVars == <<runs, supplied>>

runVars == <<prompt, session, results, listings, frags, idx, valid, seen_names,
             ranked, saved, invoked, aiOutcome, aiCount, nEmitted, released,
             acquired, lastFetch, sources, lastFrag, nScored, instVars>>

scoreVars == <<sListing, sCalls, sRaw>>

mineVars == <<data, mined>>

regexVars == <<html, parsed>>

aiVars == <<aiData, normalized>>

swampVars == <<scraped, swamps>>

\* The variables of the specifications of the pure functions.
pureVars == <<scoreVars, mineVars, regexVars, aiVars, swampVars>>

vars == <<pc, keywords, exc, fetches, runVars, pureVars>>

(* ----------------------- scoring specification ------------------------ *)

\* The keyword lists of length at most n over the two keywords.
KwLists(n) == UNION {[1..k -> {KwLoft, KwPool}] : k \in 0..n}

\* Listings handed to the scoring function: with a cheap, a mid and a default
\* price, a zero price, a listing URL as name (with and without a description
\* the caller already set), and a www. listing URL.
ScoreListings ==
    { Listing(Loft, LakeLA, Some(89), Some(48)),
      Listing(Loft, Unknown, Some(120), None),
      Listing(Cabin, LakeLA, Some(0), Some(48)),
      Listing(Villa, Unknown, None, Some(45)),
      Listing(Room1, Unknown, Some(200), Some(50)),
      Listing(Room1, LakeLA, Some(89), None),
      [Listing(Room1, Unknown, Some(89), None) EXCEPT !.description = Some(PoolDesc)],
      Listing(WwwAirbnbPrefix, Unknown, None, None) }

MineIdle == data = None /\ mined = None

RegexIdle == html = <<>> /\ parsed = None

AIIdle == aiData = None /\ normalized = None

SwampIdle == scraped = None /\ swamps = None

NoListing == Listing(<<>>, <<>>, None, None)

RunIdle ==
    /\ prompt = <<>> /\ session = "none" /\ results = <<>> /\ listings = <<>>
    /\ frags = 0 /\ idx = 0 /\ valid = <<>> /\ seen_names = {}
    /\ ranked = None /\ saved = None /\ invoked = <<>> /\ aiOutcome = "none"
    /\ aiCount = -1 /\ nEmitted = -1
    /\ released = 0 /\ acquired = FALSE
    /\ lastFetch = "none" /\ sources = {} /\ lastFrag = "none"
    /\ runs = 0 /\ nScored = 0

ScoreInit ==
    /\ pc = "score"
    /\ keywords \in KwLists(MaxKw)
    /\ sListing \in ScoreListings
    /\ sCalls = 0
    /\ sRaw = 0
    /\ fetches = 0
    /\ exc = "none"
    /\ RunIdle
    /\ supplied = keywords
    /\ MineIdle /\ RegexIdle /\ AIIdle /\ SwampIdle

\* A scoring call that finds the description cached, or a name that is no
\* listing URL: no fetch.
ScoreCached ==
    /\ pc = "score" /\ sCalls < MaxScoreCalls
    /\ ~NeedsFetch(sListing)
    /\ sListing' = calculate_score(sListing, keywords, FALSE, "empty")
    /\ sRaw' = RawScore(sListing, IF IsListingUrl(sListing.name)
                                  THEN CachedDescription(sListing) ELSE <<>>, keywords)
    /\ sCalls' = sCalls + 1
    /\ exc' = "none"
    /\ UNCHANGED <<pc, keywords, fetches, runVars, mineVars, regexVars, aiVars,
                   swampVars>>

\* A scoring call that fetches the description, whatever the fetch comes to.
ScoreFetching ==
    /\ pc = "score" /\ sCalls < MaxScoreCalls
    /\ NeedsFetch(sListing)
    /\ \E outcome \in FetchOutcomes :
          /\ sListing' = calculate_score(sListing, keywords, TRUE, outcome)
          /\ sRaw' = RawScore(sListing, fetch_description(outcome), keywords)
    /\ fetches' = fetches + 1
    /\ sCalls' = sCalls + 1
    /\ exc' = "none"
    /\ UNCHANGED <<pc, keywords, runVars, mineVars, regexVars, aiVars,
                   swampVars>>

\* A scoring call whose fetch fails and whose description_fetch_failed record
\* is refused: the observability error leaves _fetch_description's handler and
\* the scoring call; nothing is cached and no score is returned.
ScoreFetchLogRaises ==
    /\ pc = "score" /\ sCalls < MaxScoreCalls
    /\ NeedsFetch(sListing)
    /\ fetches' = fetches + 1
    /\ sCalls' = sCalls + 1
    /\ exc' = "observability"
    /\ UNCHANGED <<pc, keywords, runVars, sListing, sRaw, mineVars, regexVars, aiVars,
                   swampVars>>

ScoreNext == ScoreCached \/ ScoreFetching \/ ScoreFetchLogRaises

ScoreSpec == ScoreInit /\ [][ScoreNext]_vars

(* ---- C5 ---- *)
\* C5 (as claimed): two scoring calls on the same listing trigger at most one
\* description fetch in total, whatever the fetch came to.
C5_AtMostOneFetch == sCalls <= 2 => fetches <= 1

(* ---- C6 ---- *)
\* C6: every score the scoring function returns lies in [0, 10] and has at most
\* one decimal digit (in hundredths: a multiple of 10 between 0 and 1000).
C6_ScoreBound ==
    ~IsNone(sListing.match_score) =>
        /\ 0 <= Val(sListing.match_score)
        /\ Val(sListing.match_score) <= MaxScore
        /\ Val(sListing.match_score) % 10 = 0

\* A score was returned for a listing whose unclamped score exceeds 10.
C6_Witness ==
    /\ sCalls > 0 /\ exc = "none"
    /\ sRaw > MaxScore
    /\ sListing.match_score = Some(MaxScore)

(* ------------------------ mining specification ----------------------- *)

\* Deepest nesting of the JSON trees handed to the miner.
MaxDepth == 2

KItems == <<"i","t","e","m","s">>

KAmount == <<"a","m","o","u","n","t">>

\* The name and title items of an object: none, a name, an empty name, a
\* padded name, a null name with a title, and a name that is a number.
NameItems ==
    { <<>>,
      << <<KName, JStr(Loft)>> >>,
      << <<KName, JStr(<<>>)>> >>,
      << <<KName, JStr(Space \o Loft \o Space)>> >>,
      << <<KName, JNull>>, <<KTitle, JStr(Villa)>> >>,
      << <<KName, JInt(7)>> >> }

\* The price items: none, a number, zero, a string with and without digits, a
\* zero with a priceString, and an object.
PriceItems ==
    { <<>>,
      << <<KPrice, JInt(89)>> >>,
      << <<KPrice, JInt(0)>> >>,
      << <<KPrice, JStr(<<"$","1","2","0">>)>> >>,
      << <<KPrice, JStr(<<"f","r","e","e">>)>> >>,
      << <<KPrice, JInt(0)>>, <<KPriceString, JStr(<<"$","7","5">>)>> >>,
      << <<KPrice, JObj(<< <<KAmount, JInt(60)>> >>)>> >> }

\* The rating items: none, a float, zero, a string with and without digits, and
\* a starRating.
RatingItems ==
    { <<>>,
      << <<KRating, JFloat(48)>> >>,
      << <<KRating, JInt(0)>> >>,
      << <<KRating, JStr(<<"4",".","5"," ","s","t","a","r","s">>)>> >>,
      << <<KRating, JStr(<<"n","/","a">>)>> >>,
      << <<KStarRating, JInt(5)>> >> }

\* Objects without nested listings, one for every combination of the items.
NodePool ==
    { JObj(n \o p \o r) : n \in NameItems, p \in PriceItems, r \in RatingItems }

\* The leaves of the nested trees: two scalars, two qualifying objects, one
\* without a name, and one whose name is a number.
TreeLeaves ==
    { JNull,
      JStr(Loft),
      JObj(<< <<KName, JStr(Loft)>>, <<KPrice, JStr(<<"$","1","2","0">>)>>,
              <<KLocation, JObj(<< <<KCity, JStr(LakeLA)>> >>)>> >>),
      JObj(<< <<KTitle, JStr(Villa)>>, <<KAvgRating, JFloat(45)>> >>),
      JObj(<< <<KPrice, JInt(89)>> >>),
      JObj(<< <<KName, JInt(7)>>, <<KPrice, JInt(89)>> >>) }

\* A tree around the tree t: a list, a list with a sibling before it, an object
\* that qualifies, one that does not, and one whose own items come last.
Wrappers(t) ==
    { JArr(<<t>>),
      JArr(<<JObj(<< <<KName, JStr(Cabin)>>, <<KPrice, JInt(75)>> >>), t>>),
      JObj(<< <<KName, JStr(Cabin)>>, <<KRating, JFloat(48)>>, <<KItems, t>> >>),
      JObj(<< <<KItems, t>> >>),
      JObj(<< <<KItems, t>>, <<KName, JStr(Cabin)>>, <<KPrice, JInt(75)>> >>) }

RECURSIVE Trees(_)
Trees(d) ==
    IF d = 0 THEN TreeLeaves
    ELSE TreeLeaves \cup UNION {Wrappers(t) : t \in Trees(d - 1)}

MineInit ==
    /\ pc = "mine"
    /\ data \in NodePool \cup Trees(MaxDepth)
    /\ mined = None
    /\ keywords = <<>> /\ supplied = <<>>
    /\ exc = "none"
    /\ fetches = 0
    /\ RunIdle
    /\ sListing = NoListing /\ sCalls = 0 /\ sRaw = 0
    /\ RegexIdle /\ AIIdle /\ SwampIdle

\* One call of the miner on a parsed fragment, as line 232 makes it.
Mine ==
    /\ pc = "mine" /\ IsNone(mined)
    /\ mined' = Some(extract_from_json(data))
    /\ UNCHANGED <<pc, keywords, exc, fetches, runVars, scoreVars, data, regexVars, aiVars,
                   swampVars>>

MineNext == Mine

MineSpec == MineInit /\ [][MineNext]_vars

(* ------------------------ regex specification ------------------------ *)

\* Most price tokens, and most rating tokens, in one page.
MaxTokens == 11

\* The k-th price, rating, listing link and location of a page, with the text
\* around it; every third link repeats the first.
Piece(kind, k) ==
    CASE kind = "price" /\ k % 3 = 1 ->
            <<"$","7","5"," ","n","i","g","h","t"," ">>
      [] kind = "price" /\ k % 3 = 2 ->
            <<"$","1","2","0"," ","n","i","g","h","t"," ">>
      [] kind = "price" /\ k % 3 = 0 ->
            <<"<","b",">","$","8","9","<","/","b",">"," ">>
      [] kind = "rating" /\ k % 3 = 1 ->
            <<"4",".","6"," ","(","1","2",")"," ">>
      [] kind = "rating" /\ k % 3 = 2 ->
            <<"4",".","9"," ","(","5",")"," ">>
      [] kind = "rating" /\ k % 3 = 0 ->
            <<"5",".","0","0","\n">>
      [] kind = "room" /\ k % 3 = 1 ->
            <<"<","a"," ","h","r","e","f","=","\"","/","r","o","o","m","s",
              "/","1","\"",">">>
      [] kind = "room" /\ k % 3 = 2 ->
            <<"<","a"," ","h","r","e","f","=","\"","/","r","o","o","m","s",
              "/","2","\"",">">>
      [] kind = "room" /\ k % 3 = 0 ->
            <<"<","a"," ","h","r","e","f","=","\"","/","r","o","o","m","s",
              "/","1","\"",">">>
      [] kind = "location" /\ k % 2 = 1 ->
            <<"L","a","k","e"," ","T","o","w","n",","," ","L","A"," ">>
      [] kind = "location" /\ k % 2 = 0 ->
            <<"i","n"," ","B","i","g"," ","B","a","y"," "," ","N","Y"," ">>

\* The page of np prices and nr ratings in the given shape (how many links
\* and locations, and what else each card carries): card k carries the k-th
\* link, price, rating and location the page has, then the extra.
RECURSIVE Cards(_, _, _, _)
Cards(k, np, nr, shape) ==
    LET Part(kind, n) == IF k <= n THEN Piece(kind, k) ELSE <<>>
    IN  IF k > np /\ k > nr /\ k > shape.nu /\ k > shape.nl THEN <<>>
        ELSE Part("room", shape.nu) \o Part("price", np) \o Part("rating", nr)
             \o Part("location", shape.nl) \o shape.extra
             \o Cards(k + 1, np, nr, shape)

\* The pages tried.  A card's extra is nothing; or decimals and prices that the
\* patterns do not take (out of the 4-5 range, glued to a word, split by a
\* tag, inside a tag); or a decimal above 5.0 that starts with 5.
RegexPages ==
    LET plain == <<>>
        untaken ==
            <<"3",".","9"," ","1","4",".","5"," ","4",".","5","6","7"," ","$",
              "<","b",">","7","<","/","b",">"," ","<","i"," ","t","=","\"",
              "$","9"," ","4",".","8","\"",">"," ">>
        above == <<"5",".","7"," ">>
        shapes == { [nu |-> 0, nl |-> 0, extra |-> plain],
                    [nu |-> 0, nl |-> 0, extra |-> untaken],
                    [nu |-> 0, nl |-> 0, extra |-> above],
                    [nu |-> 1, nl |-> 1, extra |-> plain],
                    [nu |-> 3, nl |-> 2, extra |-> plain],
                    [nu |-> 2, nl |-> 0, extra |-> above] }
    IN  { Cards(1, np, nr, shape) :
            np \in 0..MaxTokens, nr \in 0..MaxTokens, shape \in shapes }

RegexInit ==
    /\ pc = "regex_parse"
    /\ html \in RegexPages
    /\ parsed = None
    /\ keywords = <<>> /\ supplied = <<>>
    /\ exc = "none"
    /\ fetches = 0
    /\ RunIdle
    /\ sListing = NoListing /\ sCalls = 0 /\ sRaw = 0
    /\ MineIdle /\ AIIdle /\ SwampIdle

\* One call of _regex_parse on a page: it returns the zip, or its regex_parse
\* record is refused and the observability error leaves it.
RegexParse ==
    /\ pc = "regex_parse" /\ IsNone(parsed) /\ exc = "none"
    /\ \/ /\ parsed' = Some(regex_parse_html(html))
          /\ exc' = exc
       \/ /\ parsed' = parsed
          /\ exc' = "observability"
    /\ UNCHANGED <<pc, keywords, fetches, runVars, scoreVars, mineVars, html,
                   aiVars, swampVars>>

RegexNext == RegexParse

RegexSpec == RegexInit /\ [][RegexNext]_vars

(* --------------------------- pipeline inputs -------------------------- *)

SeqsUpTo(S, n) == UNION {[1..k -> S] : k \in 0..n}

FindLoftWithPool ==
    <<"F","i","n","d"," ","l","o","f","t"," ","w","i","t","h"," ","P","O","O","L">>

\* The prompts run is called with: none, and one with two stop words.
Prompts == {<<>>, FindLoftWithPool}

\* The keyword lists a finder is constructed with.
InitKeywords == {<<>>, <<KwLoft>>}

\* Elements the model may return: a well-formed one, a second and a third of
\* the same name (one with a negative price), a zero price, a listing URL, a
\* rating above 5, an empty name, and one with every key missing.
AIItemPool ==
    { AIItem(Some(Loft), Some(LakeLA), Some(89), Some(48)),
      AIItem(Some(Loft), None, Some(120), None),
      AIItem(Some(Loft), Some(LakeLA), Some(-10), Some(48)),
      AIItem(Some(Cabin), Some(<<>>), Some(0), Some(48)),
      AIItem(Some(Room1), None, Some(200), Some(50)),
      AIItem(Some(Villa), None, None, Some(57)),
      AIItem(Some(<<>>), None, Some(89), None),
      AIItem(None, None, None, None) }

\* Candidates the structured-data miner can emit: a non-empty name and a
\* price or a rating, both read as unsigned digit runs.
MinedPool ==
    { Listing(Loft, LakeLA, Some(89), Some(48)),
      Listing(Loft, Unknown, Some(120), None),
      Listing(Loft, LakeLA, None, Some(57)),
      Listing(Cabin, Unknown, Some(0), Some(48)),
      Listing(Room1, Unknown, Some(200), Some(50)),
      Listing(Villa, Unknown, None, Some(45)) }

\* The token streams the regex strategy can find: $-prices, decimals matching
\* [4-5].d, de-duplicated /rooms/ URLs, and locations.
RegexPrices == SeqsUpTo({0, 75}, MaxCand)

RegexRatings == SeqsUpTo({46, 57}, MaxCand)

RegexUrls == {<<>>, <<Room1>>}

RegexLocations == {<<>>, <<LakeLA>>}

(* ------------------------------ pipeline ------------------------------ *)

Init ==
    /\ pc = "start"
    /\ keywords \in InitKeywords
    /\ exc = "none"
    /\ fetches = 0
    /\ RunIdle
    /\ supplied = keywords
    /\ sListing = NoListing /\ sCalls = 0 /\ sRaw = 0
    /\ MineIdle /\ RegexIdle /\ AIIdle /\ SwampIdle

parseLocals == <<listings, frags, idx, valid, seen_names, lastFetch, sources,
                 lastFrag>>

\* An exception leaves parse_listings and run's try block: the frames' locals
\* are gone, and run's except and finally clauses come next.
Raise(kind) ==
    /\ exc' = kind
    /\ pc' = "finally"
    /\ listings' = <<>> /\ frags' = 0 /\ idx' = 0 /\ valid' = <<>>
    /\ seen_names' = {}
    /\ lastFetch' = "none" /\ sources' = {} /\ lastFrag' = "none"

\* run, up to the try block: the keywords are derived from the prompt when the
\* finder has none, and the run interaction is opened.
RunBegin ==
    /\ pc = "start"
    /\ \E p \in Prompts :
          /\ prompt' = p
          /\ keywords' = IF ~(keywords # <<>>) THEN extract_keywords(p) ELSE keywords
    /\ \/ /\ pc' = "start_session"
          /\ exc' = exc
       \/ /\ pc' = "done"
          /\ exc' = "observability"
    /\ UNCHANGED <<fetches, nScored, session, results, parseLocals, ranked, saved,
                   invoked, aiOutcome, aiCount, nEmitted, released, acquired,
                   pureVars, instVars>>

\* start_session
StartSession ==
    /\ pc = "start_session"
    /\ \/ /\ session' = "open"
          /\ acquired' = TRUE
          /\ pc' = "scrape"
          /\ UNCHANGED <<exc, parseLocals>>
       \* sessions.create raises: self.session keeps its value
       \/ /\ session' = session
          /\ acquired' = acquired
          /\ Raise("session")
       \* the session_started record is refused
       \/ /\ session' = "open"
          /\ acquired' = TRUE
          /\ Raise("observability")
    /\ UNCHANGED <<prompt, keywords, fetches, nScored, results, ranked, saved, invoked,
                   aiOutcome, aiCount, nEmitted, released, pureVars, instVars>>

\* scrape_url
ScrapeUrl ==
    /\ pc = "scrape"
    /\ \/ /\ pc' = "parse"
          /\ UNCHANGED <<exc, parseLocals>>
       \/ Raise("scrape")
       \/ Raise("observability")
    /\ UNCHANGED <<prompt, keywords, fetches, nScored, session, results, ranked, saved,
                   invoked, aiOutcome, aiCount, nEmitted, released, acquired,
                   pureVars, instVars>>

\* parse_listings, up to the first strategy.
ParseBegin ==
    /\ pc = "parse"
    /\ \/ /\ pc' = IF Truthy(prompt) THEN "ai" ELSE "json"
          /\ listings' = <<>>
          /\ UNCHANGED <<exc, frags, idx, valid, seen_names, lastFetch, sources,
                         lastFrag>>
       \/ Raise("observability")
    /\ UNCHANGED <<prompt, keywords, fetches, nScored, session, results, ranked, saved,
                   invoked, aiOutcome, aiCount, nEmitted, released, acquired,
                   pureVars, instVars>>

runFrame == <<prompt, keywords, session, results, ranked, saved, released,
              acquired, pureVars, instVars>>

\* A cascade that mines structured data whatever the model returned.
NextAfterAIAlwaysJson(ls) == "json"

\* Lines 214-223: the structured-data strategy runs only if not listings.
NextAfterAI(ls) == IF ls # <<>> THEN "validate" ELSE "json"

\* An except clause that re-raises, as parse_listings' own does.
ai_on_failure_reraise(kind) == [raises |-> TRUE, listings |-> <<>>]

\* _extract_with_ai's except clause: the failure is recorded and [] returned.
ai_on_failure(kind) == [raises |-> FALSE, listings |-> <<>>]

\* nEmitted once the cascade is through with strategy output ls.
Handed(ls, next) == IF next = "validate" THEN Len(ls) ELSE -1

\* The strategy whose candidates ls are, if there are any.
From(strategy, ls) == IF ls # <<>> THEN {strategy} ELSE {}

\* Strategy 1: _extract_with_ai and the ai_parse_success record.
AIStrategy ==
    /\ pc = "ai"
    /\ invoked' = <<"ai">>
    /\ \/ \E kind \in AIFailures, handlerLogged \in BOOLEAN :
             /\ aiOutcome' = kind
             /\ IF ai_on_failure(kind).raises
                THEN /\ Raise(kind)
                     /\ aiCount' = -1 /\ nEmitted' = -1
                ELSE IF ~handlerLogged
                \* a record of the except clause is refused: nothing catches it
                THEN /\ Raise("observability")
                     /\ aiCount' = -1 /\ nEmitted' = -1
                ELSE /\ listings' = ai_on_failure(kind).listings
                     /\ aiCount' = Len(listings')
                     /\ pc' = NextAfterAI(listings')
                     /\ nEmitted' = Handed(listings', pc')
                     /\ sources' = From("ai", listings')
                     /\ UNCHANGED <<exc, frags, idx, valid, seen_names, lastFetch, lastFrag>>
       \/ \E shape \in {"object", "array"}, items \in SeqsUpTo(AIItemPool, MaxCand) :
             /\ aiOutcome' = shape
             /\ listings' = NormalizeResponse(shape, items)
             /\ aiCount' = Len(listings')
             /\ pc' = NextAfterAI(listings')
             /\ nEmitted' = Handed(listings', pc')
             /\ sources' = From("ai", listings')
             /\ UNCHANGED <<exc, frags, idx, valid, seen_names, lastFetch, lastFrag>>
       \* the ai_extraction_success record or finish is refused inside the try
       \* block: the except clause catches that too and the listings are lost
       \/ /\ aiOutcome' = "log_error"
          /\ listings' = <<>>
          /\ aiCount' = 0
          /\ pc' = NextAfterAI(listings')
          /\ nEmitted' = -1
          /\ sources' = From("ai", listings')
          /\ UNCHANGED <<exc, frags, idx, valid, seen_names, lastFetch, lastFrag>>
       \* raindrop.begin (before the try block) or the ai_parse_success record
       \* (after the return) is refused
       \/ /\ aiOutcome' = "log_raised"
          /\ aiCount' = -1 /\ nEmitted' = -1
          /\ Raise("observability")
    /\ UNCHANGED <<fetches, nScored, runFrame>>

\* Strategy 2, the scan: the application/json script fragments of the page.
JsonStart ==
    /\ pc = "json"
    /\ invoked' = Append(invoked, "json")
    /\ \E n \in 0..MaxFrags : frags' = n
    /\ pc' = "json_loop"
    /\ UNCHANGED <<exc, fetches, nScored, listings, idx, valid, seen_names, lastFetch,
                   sources, lastFrag, aiOutcome, aiCount, nEmitted, runFrame>>

\* A handler that starts the strategy's list afresh.
skip_fragment_reset(ls) == <<>>

\* Lines 234-235: except Exception: continue.  listings is as it was before
\* the fragment.
skip_fragment(ls) == ls

\* Strategy 2, one fragment: json.loads or the miner raises and the fragment is
\* skipped, or what the miner found is appended.
JsonFragment ==
    /\ pc = "json_loop" /\ frags > 0
    /\ frags' = frags - 1
    /\ \/ /\ listings' = skip_fragment(listings)
          /\ lastFrag' = "failed"
          /\ sources' = sources
       \/ \E extracted \in SeqsUpTo(MinedPool, MaxCand - Len(listings)) :
             /\ listings' = listings \o extracted
             /\ lastFrag' = "mined"
             /\ sources' = sources \cup From("json", extracted)
    /\ UNCHANGED <<pc, exc, fetches, nScored, idx, valid, seen_names, lastFetch, invoked,
                   aiOutcome, aiCount, nEmitted, runFrame>>

\* A cascade that tries the regex strategy whatever the miner found.
NextAfterJsonAlwaysRegex(ls) == "regex"

\* Lines 237-246: the regex strategy runs only if not listings.
NextAfterJson(ls) == IF ls # <<>> THEN "validate" ELSE "regex"

\* Strategy 2, after the loop: the json_parse_success record if anything was
\* found.
JsonEnd ==
    /\ pc = "json_loop" /\ frags = 0
    /\ \/ /\ pc' = NextAfterJson(listings)
          /\ nEmitted' = Handed(listings, pc')
          /\ lastFrag' = "none"
          /\ UNCHANGED <<exc, listings, frags, idx, valid, seen_names,
                         lastFetch, sources>>
       \/ /\ listings # <<>>
          /\ nEmitted' = nEmitted
          /\ Raise("observability")
    /\ UNCHANGED <<fetches, nScored, invoked, aiOutcome, aiCount, runFrame>>

\* Strategy 3: the json_parse_empty record, then _regex_parse.
RegexStrategy ==
    /\ pc = "regex"
    /\ \/ /\ invoked' = Append(invoked, "regex")
          /\ \E prices \in RegexPrices, ratings \in RegexRatings,
                property_urls \in RegexUrls, locations \in RegexLocations :
                listings' = regex_parse(prices, ratings, property_urls, locations)
          /\ pc' = "validate"
          /\ nEmitted' = Len(listings')
          /\ sources' = From("regex", listings')
          /\ UNCHANGED <<exc, frags, idx, valid, seen_names, lastFetch, lastFrag>>
       \* int() refuses a digit run longer than the interpreter's limit
       \/ /\ invoked' = Append(invoked, "regex")
          /\ nEmitted' = nEmitted
          /\ Raise("regex")
       \* the regex_parse record is refused
       \/ /\ invoked' = Append(invoked, "regex")
          /\ nEmitted' = nEmitted
          /\ Raise("observability")
       \* the json_parse_empty record is refused, before _regex_parse is called
       \/ /\ invoked' = invoked
          /\ nEmitted' = nEmitted
          /\ Raise("observability")
    /\ UNCHANGED <<fetches, nScored, aiOutcome, aiCount, runFrame>>

\* An admission test that forgets the seen-names test.
AdmitsNoDedup(listing, seen) == is_valid(listing)

\* Line 258: a candidate is admitted if valid and its name not yet seen.
Admits(listing, seen) == is_valid(listing) /\ listing.name \notin seen

\* A seen-set that records every candidate's name, admitted or not.
SeenAfterAny(listing, admitted, seen) == seen \cup {listing.name}

\* Line 261: only an admitted candidate's name is recorded.
SeenAfter(listing, admitted, seen) ==
    IF admitted THEN seen \cup {listing.name} ELSE seen

\* Scoring placed ahead of the admission test of line 258.
ScoreCallsEager(admitted) == 1

\* Lines 258-259: _calculate_score is called inside the if, once.
ScoreCalls(admitted) == IF admitted THEN 1 ELSE 0

\* One turn of the validate / score / deduplicate loop.  The scored dict is the
\* candidate's own dict, so listings sees the two keys that scoring adds.
ValidateStep ==
    /\ pc = "validate" /\ idx < Len(listings)
    /\ LET listing == listings[idx + 1]
           admitted == Admits(listing, seen_names)
       IN  \/ /\ ~admitted
              /\ nScored' = nScored + ScoreCalls(admitted)
              /\ seen_names' = SeenAfter(listing, FALSE, seen_names)
              /\ idx' = idx + 1
              /\ lastFetch' = "none"
              /\ UNCHANGED <<pc, exc, fetches, listings, frags, valid, sources,
                             lastFrag>>
           \/ /\ admitted /\ ~NeedsFetch(listing)
              /\ nScored' = nScored + ScoreCalls(admitted)
              /\ LET scored == calculate_score(listing, keywords, FALSE, "empty")
                 IN  /\ valid' = Append(valid, scored)
                     /\ listings' = [listings EXCEPT ![idx + 1] = scored]
              /\ seen_names' = SeenAfter(listing, TRUE, seen_names)
              /\ idx' = idx + 1
              /\ lastFetch' = "none"
              /\ UNCHANGED <<pc, exc, fetches, frags, sources, lastFrag>>
           \/ /\ admitted /\ NeedsFetch(listing)
              /\ nScored' = nScored + ScoreCalls(admitted)
              /\ \E outcome \in FetchOutcomes :
                    LET scored == calculate_score(listing, keywords, TRUE, outcome)
                    IN  /\ valid' = Append(valid, scored)
                        /\ listings' = [listings EXCEPT ![idx + 1] = scored]
                        /\ lastFetch' = outcome
              /\ fetches' = fetches + 1
              /\ seen_names' = SeenAfter(listing, TRUE, seen_names)
              /\ idx' = idx + 1
              /\ UNCHANGED <<pc, exc, frags, sources, lastFrag>>
           \* the fetch fails and its description_fetch_failed record is refused
           \/ /\ admitted /\ NeedsFetch(listing)
              /\ nScored' = nScored + ScoreCalls(admitted)
              /\ fetches' = fetches + 1
              /\ Raise("observability")
    /\ UNCHANGED <<invoked, aiOutcome, aiCount, nEmitted, runFrame>>

\* An assignment that extends the list the finder already holds.
ExtendResults(previous, validated) == previous \o validated

\* Line 263: self.results = valid rebinds the attribute to this call's list.
AssignResults(previous, validated) == validated

\* After the loop: self.results = valid, then the closing signal and finish.
\* The caller holds the returned list, which is self.results.
ParseFinish ==
    /\ pc = "validate" /\ idx = Len(listings)
    /\ results' = AssignResults(results, valid)
    /\ \/ /\ pc' = "save"
          /\ exc' = exc
          /\ listings' = <<>> /\ frags' = 0 /\ idx' = 0 /\ valid' = <<>>
          /\ seen_names' = {}
          /\ lastFetch' = "none" /\ sources' = {} /\ lastFrag' = "none"
       \/ Raise("observability")
    /\ UNCHANGED <<prompt, keywords, fetches, nScored, session, ranked, saved, invoked,
                   aiOutcome, aiCount, nEmitted, released, acquired,
                   pureVars, instVars>>

\* The document save writes.
Document ==
    [total |-> Len(results), keywords |-> keywords, results |-> results]

\* save
Save ==
    /\ pc = "save"
    /\ \/ /\ saved' = Some(Document)
          /\ pc' = "report"
          /\ UNCHANGED <<exc, parseLocals>>
       \* open() raises: nothing is written
       \/ /\ saved' = saved
          /\ Raise("save")
       \* the file is written and the results_saved record is refused
       \/ /\ saved' = Some(Document)
          /\ Raise("observability")
    /\ UNCHANGED <<prompt, keywords, fetches, nScored, session, results, ranked, invoked,
                   aiOutcome, aiCount, nEmitted, released, acquired,
                   pureVars, instVars>>

\* A display that reads results[0] without the empty-list return.
display_unguarded(shown, printFails) ==
    IF shown = <<>> THEN "index_error"
    ELSE IF printFails THEN "display" ELSE "none"

\* display: "No results found." and return for an empty list; the exception it
\* ends with, "none" if it returns.
display(shown, printFails) == IF printFails THEN "display" ELSE "none"

\* The rest of the try block: the run's finish and task_success signal, the
\* display, and the return of the ranked list (held until finally is through).
Report ==
    /\ pc = "report"
    /\ \/ \E printFails \in BOOLEAN :
             LET shown == sorted_desc(results)
             IN  IF display(shown, printFails) = "none"
                 THEN /\ ranked' = Some(shown)
                      /\ pc' = "finally"
                      /\ UNCHANGED <<exc, parseLocals>>
                 ELSE /\ ranked' = ranked
                      /\ Raise(display(shown, printFails))
       \/ /\ ranked' = ranked
          /\ Raise("observability")
    /\ UNCHANGED <<prompt, keywords, fetches, nScored, session, results, saved, invoked,
                   aiOutcome, aiCount, nEmitted, released, acquired,
                   pureVars, instVars>>

\* run's except clause (if an exception is propagating) and finally clause:
\* end_session releases the session if there is one.
Finally ==
    /\ pc = "finally"
    /\ pc' = "done"
    /\ \/ /\ released' = IF session = "open" THEN released + 1 ELSE released
          /\ UNCHANGED <<exc, ranked>>
       \* the release call raises
       \/ /\ session = "open"
          /\ released' = released + 1
          /\ exc' = "release"
          /\ ranked' = None
       \* a record of the except clause, session_released or flush is refused
       \/ /\ released' = IF session = "open" THEN released + 1 ELSE released
          /\ exc' = "observability"
          /\ ranked' = None
    /\ UNCHANGED <<prompt, keywords, fetches, nScored, session, results, parseLocals,
                   saved, invoked, aiOutcome, aiCount, nEmitted, acquired,
                   pureVars, instVars>>

Next ==
    \/ RunBegin \/ StartSession \/ ScrapeUrl \/ ParseBegin
    \/ AIStrategy \/ JsonStart \/ JsonFragment \/ JsonEnd \/ RegexStrategy
    \/ ValidateStep \/ ParseFinish \/ Save \/ Report \/ Finally

Spec == Init /\ [][Next]_vars

(* --------------------------- repeated runs ---------------------------- *)

\* Lines 255-261 as one fold: the validate / score / deduplicate loop over
\* candidates whose names are no listing URLs (no description fetch).
RECURSIVE ValidateAll(_, _, _, _)
ValidateAll(cands, kws, seen, out) ==
    IF cands = <<>> THEN out
    ELSE LET listing == Head(cands)
             admitted == Admits(listing, seen)
         IN  ValidateAll(Tail(cands), kws, SeenAfter(listing, admitted, seen),
                         IF admitted
                         THEN Append(out, calculate_score(listing, kws, FALSE, "empty"))
                         ELSE out)

\* What the cascade of one parse_listings call hands to validation, in the
\* specification of repeated runs.
RunCandidates ==
    { <<>>,
      <<Listing(Loft, LakeLA, Some(89), Some(48))>>,
      <<Listing(Villa, Unknown, None, Some(45)),
        Listing(Loft, Unknown, Some(120), None)>> }

\* parse_listings as one step: it raises before line 263, or assigns
\* self.results and returns, or assigns and has its closing signal refused.
ParseCall ==
    /\ pc = "parse"
    /\ \/ /\ \E cands \in RunCandidates :
                LET validated == ValidateAll(cands, keywords, {}, <<>>)
                IN  /\ results' = AssignResults(results, validated)
                    /\ nScored' = nScored + Len(validated)
          /\ pc' = "save"
          /\ UNCHANGED <<exc, parseLocals>>
       \/ /\ results' = results
          /\ nScored' = nScored
          /\ Raise("regex")
       \/ /\ \E cands \in RunCandidates :
                LET validated == ValidateAll(cands, keywords, {}, <<>>)
                IN  /\ results' = AssignResults(results, validated)
                    /\ nScored' = nScored + Len(validated)
          /\ Raise("observability")
    /\ UNCHANGED <<prompt, keywords, fetches, session, ranked, saved, invoked,
                   aiOutcome, aiCount, nEmitted, released, acquired,
                   pureVars, instVars>>

\* The caller has run's outcome and calls run again on the same finder: the
\* finder's attributes and the result file are as the last run left them.
RunAgain ==
    /\ pc = "done" /\ runs + 1 < MaxRuns
    /\ runs' = runs + 1
    /\ pc' = "start"
    /\ exc' = "none"
    /\ ranked' = None
    /\ released' = 0
    /\ acquired' = FALSE
    /\ UNCHANGED <<prompt, keywords, fetches, nScored, session, results, parseLocals,
                   saved, invoked, aiOutcome, aiCount, nEmitted, supplied,
                   pureVars>>

RunsNext ==
    \/ RunBegin \/ StartSession \/ ScrapeUrl \/ ParseCall \/ Save \/ Report
    \/ Finally \/ RunAgain

RunsSpec == Init /\ [][RunsNext]_vars

(* ------------------- model response specification ------------------- *)

KListings == <<"l","i","s","t","i","n","g","s">>

\* The four item.get calls of lines 357-362 on one element of the array, for
\* an element whose name and location are strings and whose price and rating
\* are numbers, where present: a missing key and a null both read as None,
\* except that a missing name has its default.
ItemOf(item) ==
    LET Present(k) == \E i \in 1..Len(item.kv) : item.kv[i][1] = k
        Number(k, scale) ==
            IF Get(item, k).t = "num" THEN Some(Get(item, k).tenths \div scale)
            ELSE None
        String(k) == IF Get(item, k).t = "str" THEN Some(Get(item, k).s) ELSE None
    IN  AIItem(IF Present(KName) THEN String(KName) ELSE None,
               String(KLocation), Number(KPrice, 10), Number(KRating, 1))

\* Lines 348-364 and the except clause of line 380: data.get is an attribute
\* error on anything but a dict, and so is item.get; iterating a "listings"
\* value that is no array raises or yields nothing to normalise.
extract_with_ai(parsedJson) ==
    IF parsedJson.t = "obj"
    THEN LET array ==
                 IF \E i \in 1..Len(parsedJson.kv) : parsedJson.kv[i][1] = KListings
                 THEN Get(parsedJson, KListings) ELSE JArr(<<>>)
         IN  IF /\ array.t = "arr"
                /\ \A i \in 1..Len(array.items) : array.items[i].t = "obj"
             THEN NormalizeResponse("object",
                      [i \in 1..Len(array.items) |-> ItemOf(array.items[i])])
             ELSE <<>>
    ELSE IF parsedJson.t = "arr" THEN NormalizeResponse("array", parsedJson.items)
    ELSE <<>>

\* Elements of a response: every key present, the optional ones null, no key
\* at all, a listing URL as name, and an element that is no object.
ResponseItems ==
    { JObj(<< <<KName, JStr(Loft)>>, <<KLocation, JStr(LakeLA)>>,
              <<KPrice, JInt(89)>>, <<KRating, JFloat(48)>> >>),
      JObj(<< <<KName, JStr(Villa)>>, <<KLocation, JNull>>,
              <<KPrice, JNull>>, <<KRating, JNull>> >>),
      JObj(<<>>),
      JObj(<< <<KName, JStr(Room1)>>, <<KPrice, JInt(200)>> >>),
      JStr(Cabin) }

\* The parsed responses tried: an object with a "listings" array, a bare
\* array, an object without the key or with a null under it, and a string.
AIResponses ==
    { JObj(<< <<KListings, JArr(items)>> >>) : items \in SeqsUpTo(ResponseItems, MaxCand) }
    \cup { JArr(items) : items \in SeqsUpTo(ResponseItems, MaxCand) }
    \cup { JObj(<<>>), JObj(<< <<KListings, JNull>> >>), JStr(Loft) }

AIInit ==
    /\ pc = "ai_extract"
    /\ aiData \in AIResponses
    /\ normalized = None
    /\ keywords = <<>> /\ supplied = <<>>
    /\ exc = "none"
    /\ fetches = 0
    /\ RunIdle
    /\ sListing = NoListing /\ sCalls = 0 /\ sRaw = 0
    /\ MineIdle /\ RegexIdle /\ SwampIdle

\* One call of _extract_with_ai on a response that parsed as JSON: it returns
\* what lines 350-364 make of it; or a record of its try block is refused and
\* the except clause returns []; or raindrop.begin is refused before the try
\* block and the error leaves the call.
AIExtract ==
    /\ pc = "ai_extract" /\ aiOutcome = "none"
    /\ \/ /\ normalized' = Some(extract_with_ai(aiData))
          /\ aiOutcome' = "returned"
          /\ exc' = exc
       \/ /\ normalized' = Some(<<>>)
          /\ aiOutcome' = "log_error"
          /\ exc' = exc
       \/ /\ normalized' = normalized
          /\ aiOutcome' = "log_raised"
          /\ exc' = "observability"
    /\ UNCHANGED <<pc, keywords, fetches, nScored, prompt, session, results, listings,
                   frags, idx, valid, seen_names, ranked, saved, invoked,
                   aiCount, nEmitted, released, acquired, lastFetch, sources,
                   lastFrag, instVars, scoreVars, mineVars, regexVars, aiData,
                   swampVars>>

AINext == AIExtract

AISpec == AIInit /\ [][AINext]_vars

(* ---------------------- SwampFinder specification --------------------- *)
(* src/SwampFinder.py: the listing extraction of the stricter variant.  A  *)
(* listing is a dict whose four keys are each present (Some) or absent;    *)
(* its swamp_score key, which validation does not read, is left out.       *)

SwampMaxElements == 10

SwampMaxFallback == 5

SwampMaxPrice == 1000

SwampListing(n, l, p, r) ==
    [name |-> n, location |-> l, price_per_night |-> p, rating |-> r]

LocationNotAvailable ==
    <<"L","o","c","a","t","i","o","n"," ","n","o","t"," ","a","v","a","i","l","a","b","l","e">>

\* _validate_listing
validate_listing(listing) ==
    /\ \A field \in {"name", "location", "price_per_night", "rating"} :
          ~IsNone(listing[field])
    /\ ~(Val(listing.price_per_night) < 0
           \/ Val(listing.price_per_night) > SwampMaxPrice)
    /\ ~(Val(listing.rating) < 0 \/ Val(listing.rating) > MaxRating)

\* _extract_listing_data on the texts that the selectors of each field return,
\* in the order they are tried: the first non-empty text is the name (and the
\* location), the first with a "$" price the price, the first with a number
\* between 0 and 5 the rating; a key whose selectors give nothing stays absent.
extract_listing_data(card) ==
    LET First(texts, Reads(_)) ==
            IF \E i \in 1..Len(texts) : Truthy(texts[i]) /\ ~IsNone(Reads(texts[i]))
            THEN Reads(texts[FirstOf({i \in 1..Len(texts) :
                          Truthy(texts[i]) /\ ~IsNone(Reads(texts[i]))})])
            ELSE None
        Stripped(text) == Some(Strip(text))
        Price(text) ==
            IF find_prices(text, 1) = <<>> THEN None
            ELSE Some(ParseInt(find_prices(text, 1)[1]))
        Rating(text) ==
            IF ~IsNone(rating_match(text))
               /\ 0 <= Val(rating_match(text)) /\ Val(rating_match(text)) <= MaxRating
            THEN rating_match(text) ELSE None
    IN  SwampListing(First(card.title, Stripped), First(card.location, Stripped),
                     First(card.price, Price), First(card.rating, Rating))

\* The loop of lines 265-275 over the first ten elements.
extract_elements(cards) ==
    SelectSeq([i \in 1..Min(Len(cards), SwampMaxElements) |->
                  extract_listing_data(cards[i])],
              validate_listing)

\* _parse_from_full_page on what its three findall calls returned: the zip of
\* prices and titles, capped, with the rating of the same position or 0.0.
parse_from_full_page(body) ==
    SelectSeq([i \in 1..Min(Min(Len(body.prices), Len(body.titles)), SwampMaxFallback) |->
                  SwampListing(Some(body.titles[i]), Some(LocationNotAvailable),
                               Some(ParseInt(body.prices[i])),
                               IF i <= Len(body.ratings)
                               THEN rating_match(body.ratings[i]) ELSE Some(0))],
              validate_listing)

\* _parse_airbnb_listings: the elements of the first selector that found some,
\* or the full-page fallback when none did.
parse_airbnb_listings(page) ==
    IF page.elements # <<>> THEN extract_elements(page.elements)
    ELSE parse_from_full_page(page.body)

\* What the selectors of one listing element can return.
SwampCards ==
    { [title |-> <<Loft>>, price |-> <<<<"$","8","9"," ","n","i","g","h","t">>>>,
       rating |-> <<<<"4",".","8"," ","(","1","2","3",")">>>>, location |-> <<LakeLA>>],
      [title |-> <<<<>>, Space \o Cabin \o Space>>, price |-> <<<<"f","r","e","e">>,<<"$","0">>>>,
       rating |-> <<<<"1","2"," ","r","e","v","i","e","w","s">>,<<"4",".","5">>>>, location |-> <<LakeLA>>],
      [title |-> <<Villa>>, price |-> <<<<"$","1","2","0","0">>>>,
       rating |-> <<<<"5",".","0">>>>, location |-> <<LakeLA>>],
      [title |-> <<Villa>>, price |-> <<<<"$","1","0","0","0">>>>,
       rating |-> <<<<"0">>>>, location |-> <<Space>>],
      [title |-> <<Cabin>>, price |-> <<<<"8","9">>>>,
       rating |-> <<<<"4",".","8">>>>, location |-> <<LakeLA>>],
      [title |-> <<>>, price |-> <<<<"$","7","5">>>>,
       rating |-> <<<<"n","e","w">>>>, location |-> <<>>] }

\* The pages tried: up to MaxCand listing elements, or none and a body with up
\* to MaxCand prices, titles and ratings.
SwampPages ==
    LET none == [prices |-> <<>>, titles |-> <<>>, ratings |-> <<>>]
        digits == {<<"0">>, <<"8","9">>, <<"1","2","0","0">>}
        decimals == {<<"4",".","8">>, <<"9",".","5">>}
    IN  { [elements |-> cards, body |-> none] :
            cards \in SeqsUpTo(SwampCards, MaxCand) \ {<<>>} }
        \cup { [elements |-> <<>>,
                body |-> [prices |-> ps, titles |-> ts, ratings |-> rs]] :
                 ps \in SeqsUpTo(digits, MaxCand),
                 ts \in SeqsUpTo({Loft \o Space \o Cabin}, MaxCand),
                 rs \in SeqsUpTo(decimals, MaxCand) }

SwampInit ==
    /\ pc = "swamp_parse"
    /\ scraped \in {Some(page) : page \in SwampPages}
    /\ swamps = None
    /\ keywords = <<>> /\ supplied = <<>>
    /\ exc = "none"
    /\ fetches = 0
    /\ RunIdle
    /\ sListing = NoListing /\ sCalls = 0 /\ sRaw = 0
    /\ MineIdle /\ RegexIdle /\ AIIdle

\* One call of _parse_airbnb_listings: it returns the listings extracted; or
\* a log call inside its try block is refused and the except clause of line
\* 284 returns []; or the record of line 214, written before the try block,
\* or a record of the except clause is refused and the error leaves the call.
SwampParse ==
    /\ pc = "swamp_parse" /\ IsNone(swamps) /\ exc = "none"
    /\ \/ /\ swamps' = Some(parse_airbnb_listings(Val(scraped)))
          /\ exc' = exc
       \/ /\ swamps' = Some(<<>>)
          /\ exc' = exc
       \/ /\ swamps' = swamps
          /\ exc' = "observability"
    /\ UNCHANGED <<pc, keywords, fetches, runVars, scoreVars, mineVars,
                   regexVars, aiVars, scraped>>

SwampNext == SwampParse

SwampSpec == SwampInit /\ [][SwampNext]_vars

(* ------------------------------- claims ------------------------------- *)

\* The output of parse_listings: the list being built, and self.results.
Outputs == {valid, results}

Range(q) == {q[i] : i \in 1..Len(q)}

Has(q, x) == \E i \in 1..Len(q) : q[i] = x

(* ---- C1 ---- *)
\* C1: in a call with an intent in which the model-based strategy returned at
\* least one candidate, neither the structured-data strategy nor the regex
\* strategy is invoked.
C1_CascadePrecedence ==
    (Truthy(prompt) /\ aiCount >= 1) =>
        (~Has(invoked, "json") /\ ~Has(invoked, "regex"))

\* A run completed on what the model-based strategy returned.
C1_Witness ==
    /\ pc = "done" /\ exc = "none"
    /\ Truthy(prompt) /\ aiCount >= 1
    /\ invoked = <<"ai">>
    /\ Len(results) >= 1

(* ---- C2 ---- *)
\* C2 (as claimed): every listing in the output has a non-empty name, a rating
\* that is absent or within [0,5], and a price that is absent or strictly
\* greater than 0.
C2_ValidityInvariant ==
    \A out \in Outputs : \A l \in Range(out) :
        /\ Truthy(l.name)
        /\ (IsNone(l.rating) \/ (0 <= Val(l.rating) /\ Val(l.rating) <= MaxRating))
        /\ (IsNone(l.price_per_night) \/ Val(l.price_per_night) > 0)

(* ---- C3 ---- *)
\* C3: the names of the listings in the output of one parse_listings call are
\* pairwise distinct.
C3_DedupInvariant ==
    \A out \in Outputs : \A i, j \in 1..Len(out) :
        i # j => out[i].name # out[j].name

\* The loop is through a list with two valid candidates of one name, and one
\* listing of that name was admitted.
C3_Witness ==
    /\ pc = "validate" /\ idx = Len(listings)
    /\ \E i, j \in 1..Len(listings) :
          /\ i < j
          /\ listings[i].name = listings[j].name
          /\ is_valid(listings[i]) /\ is_valid(listings[j])
          /\ Cardinality({k \in 1..Len(valid) : valid[k].name = listings[i].name}) = 1

(* ---- C4 ---- *)
\* The fields a strategy gave a candidate.
Fields(l) == <<l.name, l.location, l.price_per_night, l.rating>>

\* C4 (as claimed): of two candidates with the same name, the fields retained
\* in the output for that name are those of the first-emitted one; the later
\* one never appears.
C4_FirstEmittedWins ==
    (pc = "validate" /\ idx = Len(listings)) =>
        \A i, j \in 1..Len(listings) :
            (i < j /\ listings[i].name = listings[j].name) =>
                \A v \in Range(valid) :
                    v.name = listings[i].name => Fields(v) = Fields(listings[i])

\* The first valid candidate named n among the first k candidates.
FirstValid(n, k) ==
    CHOOSE i \in 1..k :
        /\ listings[i].name = n /\ is_valid(listings[i])
        /\ \A h \in 1..(i - 1) : ~(listings[h].name = n /\ is_valid(listings[h]))

\* C4 (amended): at every point of the loop, each name that a valid candidate
\* seen so far carries is in the output exactly once, with the fields of the
\* first-emitted valid candidate of that name; an invalid candidate does not
\* reserve its name.
C4_FirstValidWins ==
    pc = "validate" =>
        /\ \A i \in 1..idx :
              is_valid(listings[i]) =>
                 \E v \in Range(valid) :
                    /\ v.name = listings[i].name
                    /\ Fields(v) = Fields(listings[FirstValid(listings[i].name, idx)])
        /\ \A v \in Range(valid) :
              \E i \in 1..idx :
                 /\ is_valid(listings[i])
                 /\ i = FirstValid(v.name, idx)
                 /\ Fields(v) = Fields(listings[i])

\* Two valid candidates of one name and different prices were validated, and
\* the output carries the first one's price.
C4_Witness ==
    /\ pc = "validate" /\ idx = Len(listings)
    /\ \E i, j \in 1..Len(listings) :
          /\ i < j
          /\ listings[i].name = listings[j].name
          /\ is_valid(listings[i]) /\ is_valid(listings[j])
          /\ listings[i].price_per_night # listings[j].price_per_night
          /\ \E v \in Range(valid) : Fields(v) = Fields(listings[i])

(* ---- C7 ---- *)
\* The exceptions that stem from inside a strategy.
StrategyErrors == AIFailures \cup {"regex"}

\* C7 (as claimed): an exception thrown by a strategy, the regex strategy
\* included, does not reach the cascade's caller.
C7_ThrowFallsThrough == exc \notin StrategyErrors

\* Failures of the collaborators around the cascade (observability,
\* persistence, the terminal, the session service).
CollaboratorErrors == {"observability", "save", "display", "release"}

Pos(q, n) == CHOOSE i \in 1..Len(q) : q[i].name = n

\* C10: the sequence run returns holds exactly the validated, deduplicated
\* listings, in descending order of score, listings of equal score in the
\* order in which the cascade emitted them.
C10_StableRanking ==
    ~IsNone(ranked) =>
        LET r == Val(ranked)
        IN  /\ Len(r) = Len(results)
            /\ \A i \in 1..Len(results) : Has(r, results[i])
            /\ \A i, j \in 1..Len(r) :
                  i < j =>
                     /\ ScoreKey(r[i]) >= ScoreKey(r[j])
                     /\ ScoreKey(r[i]) = ScoreKey(r[j]) =>
                           Pos(results, r[i].name) < Pos(results, r[j].name)

\* A returned ranking that differs from the emission order and holds a tie.
C10_Witness ==
    /\ pc = "done" /\ exc = "none" /\ ~IsNone(ranked)
    /\ Val(ranked) # results
    /\ \E i, j \in 1..Len(Val(ranked)) :
          i < j /\ ScoreKey(Val(ranked)[i]) = ScoreKey(Val(ranked)[j])

(* ---- C11 ---- *)
\* C11 (as claimed): when run has exited, a release of the session was
\* attempted if this run acquired one, whether the run succeeded or failed, and
\* no release was attempted if this run acquired none.
C11_ReleaseIffAcquired ==
    pc = "done" => released = (IF acquired THEN 1 ELSE 0)

(* ---- C12 ---- *)
\* C12 (as claimed): when a run has raised to its caller, no result file has
\* been written during that run.
C12_NoPersistOnFatal ==
    (pc = "done" /\ exc # "none") => IsNone(saved)

C14_ObservabilityIndependent == exc # "observability"

(* ---- C15 ---- *)
\* The keywords the claim has a run score with: the list the finder was
\* constructed with if that is not empty, else those derived from the prompt of
\* the run.
ClaimedKeywords ==
    IF supplied # <<>> THEN supplied ELSE extract_keywords(prompt)

\* C15 (as claimed): in each run of a sequence of runs on one finder, the
\* keywords in use are the supplied list, or, if none was supplied, those
\* derived from this run's prompt; every listing the run's parse_listings
\* returned carries the score computed with them.
C15_KeywordSource ==
    /\ pc \in {"start_session", "scrape", "parse", "save", "report"} =>
          keywords = ClaimedKeywords
    /\ pc \in {"save", "report"} =>
          \A r \in Range(results) :
             r.match_score =
                Some(FinalScore(RawScore(r, IF IsListingUrl(r.name)
                                            THEN CachedDescription(r) ELSE <<>>,
                                         ClaimedKeywords)))

(* ---- C16 ---- *)
\* C16: the candidates handed to validation all come from one strategy, the
\* last one invoked; candidates of two strategies are never in listings
\* together; and the regex strategy is reached and invoked only after the
\* structured-data strategy, with nothing mined.
C16_OneStrategy ==
    /\ Cardinality(sources) <= 1
    /\ pc = "validate" => sources = From(invoked[Len(invoked)], listings)
    /\ pc = "regex" => (listings = <<>> /\ invoked[Len(invoked)] = "json")
    /\ Has(invoked, "regex") =>
          /\ sources \subseteq {"regex"}
          /\ Len(invoked) >= 2
          /\ invoked[Len(invoked) - 1] = "json" /\ invoked[Len(invoked)] = "regex"

\* All three strategies were invoked in one call and the candidates under
\* validation are the regex strategy's.
C16_Witness ==
    /\ pc = "validate"
    /\ invoked = <<"ai", "json", "regex">>
    /\ sources = {"regex"}
    /\ Len(listings) >= 2

(* ---- C17 ---- *)
\* Validity as the claim states it: a non-empty name, a price that is absent
\* or strictly positive, a rating that is absent or within [0,5].
ClaimedValid(l) ==
    /\ Truthy(l.name)
    /\ (IsNone(l.price_per_night) \/ Val(l.price_per_night) > 0)
    /\ (IsNone(l.rating) \/ (0 <= Val(l.rating) /\ Val(l.rating) <= MaxRating))

\* The subsequence of cands, in order, of the candidates that are valid as
\* claimed and whose name is not in seen, the names of those kept before.
RECURSIVE ClaimedFilter(_, _)
ClaimedFilter(cands, seen) ==
    IF cands = <<>> THEN <<>>
    ELSE IF ClaimedValid(Head(cands)) /\ Head(cands).name \notin seen
         THEN <<Fields(Head(cands))>>
              \o ClaimedFilter(Tail(cands), seen \cup {Head(cands).name})
         ELSE ClaimedFilter(Tail(cands), seen)

\* C17 (as claimed): at every point of the loop, the validator's output is
\* exactly the subsequence, in emission order, of the candidates seen so far
\* that are valid (non-empty name; price absent or strictly positive; rating
\* absent or in [0,5]) and whose name was not admitted earlier.
C17_OrderPreservingFilter ==
    pc = "validate" =>
        [i \in 1..Len(valid) |-> Fields(valid[i])]
            = ClaimedFilter(SubSeq(listings, 1, idx), {})

(* ---- C18 ---- *)
\* A value that contains a parseable number: a number, or any other value
\* whose text holds a digit.
HoldsNumber(v) ==
    v.t = "num" \/ (v.t # "null" /\ DigitStart(Str(v)) # 0)

\* The node has a non-empty name, from name or else title.
HasName(node) ==
    LET n == Or2(Get(node, KName), Get(node, KTitle))
    IN  n.t = "str" /\ Truthy(Strip(n.s))

HasPrice(node) ==
    \E k \in {KPrice, KPriceString, KPriceValue} : HoldsNumber(Get(node, k))

HasRating(node) ==
    \E k \in {KRating, KStarRating, KAvgRating} : HoldsNumber(Get(node, k))

\* C18 (as claimed): an object node without nested candidates is emitted if
\* and only if it has a non-empty name and its price or its rating fields hold
\* a parseable number; an emitted candidate's price (rating) is null exactly
\* when the price (rating) fields hold none.
C18_EmissionRule ==
    (~IsNone(mined) /\ data.t = "obj" /\ MineEach(Values(data)) = MineFound(<<>>)) =>
        LET found == Val(mined).results
        IN  /\ (found # <<>>) <=> (HasName(data) /\ (HasPrice(data) \/ HasRating(data)))
            /\ found # <<>> =>
                  /\ IsNone(found[1].price_per_night) <=> ~HasPrice(data)
                  /\ IsNone(found[1].rating) <=> ~HasRating(data)

(* ---- C19 ---- *)
\* The object nodes of a JSON tree, each before the nodes below it.
RECURSIVE ObjectNodes(_)
RECURSIVE ObjectNodesOf(_)
ObjectNodes(v) ==
    IF v.t = "obj" THEN <<v>> \o ObjectNodesOf(Values(v))
    ELSE IF v.t = "arr" THEN ObjectNodesOf(v.items)
    ELSE <<>>

ObjectNodesOf(values) ==
    IF values = <<>> THEN <<>>
    ELSE ObjectNodes(Head(values)) \o ObjectNodesOf(Tail(values))

\* The node by itself qualifies as a listing.
Qualifies(node) ==
    ~node_listing(node).raises /\ node_listing(node).results # <<>>

\* C19 (as claimed): whatever the JSON value and the types of its fields, the
\* candidate of every qualifying object node of the tree, at any depth, is in
\* the miner's result.
C19_Exhaustive ==
    ~IsNone(mined) =>
        \A n \in Range(ObjectNodes(data)) :
            Qualifies(n) => Has(Val(mined).results, node_listing(n).results[1])

(* ---- C20 ---- *)
\* C20: every step that handles one fragment stays in the fragment loop and
\* raises nothing; the candidates collected before it are kept, in place; and
\* when the fragment failed to parse or to be mined, listings is exactly what
\* it was.
C20_FragmentIsolation ==
    [][(pc = "json_loop" /\ frags' = frags - 1) =>
          /\ pc' = "json_loop" /\ exc' = exc
          /\ lastFrag' \in {"failed", "mined"}
          /\ Len(listings') >= Len(listings)
          /\ SubSeq(listings', 1, Len(listings)) = listings
          /\ lastFrag' = "failed" => listings' = listings]_vars

\* A fragment has failed, the candidates of an earlier fragment are still
\* there, and a fragment remains to be mined.
C20_Witness ==
    /\ pc = "json_loop"
    /\ lastFrag = "failed"
    /\ listings # <<>>
    /\ frags > 0


(* ---- C21 ---- *)
\* The token streams the regex extractor finds in the page it was handed.
PageText == CollapseSpace(StripTags(html, 1))

PagePrices == find_prices(PageText, 1)

PageRatings == find_ratings(PageText, 1)

PageUrls == from_keys(find_rooms(html, 1), {})

PageLocations == find_locations(PageText, 1)

\* C21: the regex extractor returns exactly min(len(prices), len(ratings), 10)
\* candidates; candidate i carries the i-th price and the i-th rating of the
\* text, the i-th listing URL as its name if there is one, and the i-th
\* location if there is one, "Unknown" otherwise.
C21_PositionalZip ==
    ~IsNone(parsed) =>
        LET out == Val(parsed)
            prices == PagePrices
            ratings == PageRatings
            urls == PageUrls
            locations == PageLocations
        IN  /\ Len(out) = Min(Min(Len(prices), Len(ratings)), 10)
            /\ \A i \in 1..Len(out) :
                  /\ out[i].price_per_night = Some(ParseInt(prices[i]))
                  /\ out[i].rating = Some(rating_value(ratings[i]))
                  /\ i <= Len(urls) => out[i].name = urls[i]
                  /\ out[i].location = (IF i <= Len(locations)
                                        THEN locations[i] ELSE Unknown)

\* A page with more than ten prices and more than ten ratings was parsed: ten
\* candidates, the second with the second link, price, rating and location of
\* the page, the third with the third price and rating and no location.
C21_Witness ==
    /\ ~IsNone(parsed)
    /\ Len(PagePrices) > 10 /\ Len(PageRatings) > 10
    /\ Len(Val(parsed)) = 10
    /\ Val(parsed)[2] = Listing(AirbnbPrefix \o RoomsPath \o <<"2">>,
                                <<"B","i","g"," ","B","a","y"," ","N","Y">>,
                                Some(120), Some(49))
    /\ Val(parsed)[3].price_per_night = Some(89)
    /\ Val(parsed)[3].rating = Some(50)
    /\ Val(parsed)[3].location = Unknown

(* ---- C22 ---- *)
\* C22 (as claimed): every rating the regex extractor assigns to a candidate
\* lies between 4.0 and 5.0 inclusive.
C22_RegexRatingRange ==
    ~IsNone(parsed) =>
        \A i \in 1..Len(Val(parsed)) :
            /\ 40 <= Val(Val(parsed)[i].rating)
            /\ Val(Val(parsed)[i].rating) <= 50

(* ---- C27 ---- *)
\* C27: the candidates one call of the regex extractor returns have pairwise
\* distinct names, each a listing URL of the page or the placeholder of its
\* position, so the name test of the admission never refuses one of them:
\* a candidate is admitted after the earlier ones iff it is valid.
C27_RegexNamesDistinct ==
    ~IsNone(parsed) =>
        LET out == Val(parsed)
            links == find_rooms(html, 1)
        IN  /\ \A i, j \in 1..Len(out) : i # j => out[i].name # out[j].name
            /\ \A i \in 1..Len(out) :
                  \/ out[i].name = PropertyName(i)
                  \/ \E k \in 1..Len(links) : out[i].name = links[k]
            /\ \A i \in 1..Len(out) :
                  Admits(out[i], {out[j].name : j \in 1..(i - 1)})
                      = is_valid(out[i])

\* A page whose third link repeats the first was parsed: the third candidate
\* carries the placeholder of its position, the first the link.
C27_Witness ==
    /\ ~IsNone(parsed)
    /\ Len(find_rooms(html, 1)) = 3
    /\ find_rooms(html, 1)[3] = find_rooms(html, 1)[1]
    /\ Len(Val(parsed)) >= 3
    /\ Val(parsed)[1].name = Room1
    /\ Val(parsed)[3].name = PropertyName(3)

(* ---- C23 ---- *)
\* The candidates that a sequence of response elements is normalised into.
NormalizedFrom(items) ==
    [i \in 1..Len(items) |-> NormalizeItem(ItemOf(items[i]))]

\* C23 (as claimed): a response that parses as a JSON object has its
\* "listings" array normalised into candidates, and a response that parses as
\* a bare JSON array has the root array normalised, one candidate per element,
\* in order.
C23_ResponseShapes ==
    (aiOutcome = "returned" /\ aiData.t \in {"obj", "arr"}) =>
        LET items == IF aiData.t = "arr" THEN aiData.items
                     ELSE Get(aiData, KListings).items
        IN  (/\ aiData.t = "obj" => Get(aiData, KListings).t = "arr"
             /\ \A i \in 1..Len(items) : items[i].t = "obj")
            => Val(normalized) = NormalizedFrom(items)

(* ---- C24 ---- *)
\* The price bonus as claimed: the default price for a listing without a
\* price, then +2.0 below 100, +1.0 below 150, else nothing.
ClaimedBonus(listing) ==
    LET price == IF IsNone(listing.price_per_night) THEN 150
                 ELSE Val(listing.price_per_night)
    IN  IF price < 100 THEN 200 ELSE IF price < 150 THEN 100 ELSE 0

\* The keywords of kws that occur, whatever the case, in the description, name
\* and location of the listing.
ClaimedHits(kws, listing) ==
    LET text == Lower(CachedDescription(listing) \o Space \o listing.name
                      \o Space \o listing.location)
    IN  Cardinality({i \in 1..Len(kws) : IsSubstring(Lower(kws[i]), text)})

\* C24 (as claimed): the score of a listing is min(10.0, 5.0 + 0.5 for each
\* keyword found + price bonus), rounded to one decimal.
C24_ScoreFormula ==
    ~IsNone(sListing.match_score) =>
        Val(sListing.match_score)
            = Round1(Min(1000, 500 + 50 * ClaimedHits(keywords, sListing)
                               + ClaimedBonus(sListing)))

(* ---- C25 ---- *)
\* C25 (as claimed): a scoring call fetches the description iff the name is a
\* listing URL and no description is cached on the listing, and then once; any
\* other call leaves the description field as it was; and a description that
\* has been cached is never overwritten or cleared by a later call.
C25_EnrichmentFrame ==
    [][sCalls' = sCalls + 1 =>
          LET trigger == IsListingUrl(sListing.name) /\ IsNone(sListing.description)
          IN  /\ fetches' - fetches = (IF trigger THEN 1 ELSE 0)
              /\ ~trigger => sListing'.description = sListing.description
              /\ ~IsNone(sListing.description)
                    => sListing'.description = sListing.description]_vars

(* ---- C26 ---- *)
\* C26 (as claimed): every listing SwampFinder's extraction returns, by the
\* selectors or by the full-page fallback, has name, location, price and
\* rating present, a price above 0 and at most 1000, and a rating in [0, 5].
C26_SwampValidity ==
    ~IsNone(swamps) =>
        \A i \in 1..Len(Val(swamps)) :
            LET listing == Val(swamps)[i]
            IN  /\ ~IsNone(listing.name) /\ ~IsNone(listing.location)
                /\ ~IsNone(listing.price_per_night) /\ ~IsNone(listing.rating)
                /\ Val(listing.price_per_night) > 0
                /\ Val(listing.price_per_night) <= 1000
                /\ 0 <= Val(listing.rating) /\ Val(listing.rating) <= 50


(* ---- C28 ---- *)
\* The candidate at position i of q passes the test of line 258 when the loop
\* reaches it: it is valid and no valid candidate before it has its name.
PassesTest(q, i) ==
    /\ is_valid(q[i])
    /\ \A j \in 1..(i - 1) : is_valid(q[j]) => q[j].name # q[i].name

\* C28: within one parse_listings call, a turn of the validation loop calls
\* _calculate_score exactly once if its candidate is valid and its name not
\* yet admitted, and not at all otherwise; no other step calls it; a turn
\* makes at most one description fetch, and only when it scores; so the
\* fetches of the call never outnumber the listings admitted.
C28_ScoredOncePerAdmitted ==
    /\ [](fetches <= nScored)
    /\ [][IF pc = "validate" /\ idx < Len(listings)
          THEN LET calls == IF PassesTest(listings, idx + 1) THEN 1 ELSE 0
               IN  /\ nScored' - nScored = calls
                   /\ fetches' - fetches \in {0, calls}
          ELSE nScored' = nScored /\ fetches' = fetches]_vars

\* The loop has finished over three candidates: two were admitted and scored,
\* one of them with a description fetch, and one candidate was passed over.
C28_Witness ==
    /\ pc = "validate" /\ idx = 3 /\ Len(listings) = 3
    /\ nScored = 2 /\ Len(valid) = 2 /\ fetches = 1
    /\ \E i \in 1..3 : ~PassesTest(listings, i) /\ IsNone(listings[i].match_score)


(* ---- C29 ---- *)
\* The two sequences hold the same listings, each as often.
SameListings(p, q) ==
    /\ Len(p) = Len(q)
    /\ \A x \in Range(p) \cup Range(q) :
          Cardinality({i \in 1..Len(p) : p[i] = x})
              = Cardinality({i \in 1..Len(q) : q[i] = x})

\* C29: when a run has returned its ranked list, the document it wrote holds
\* under results the listings that this run's parse_listings call validated,
\* deduplicated and scored, in validation order: every one valid and scored,
\* no name twice, the list being what one pass over one candidate list gives
\* and nothing of an earlier call; the ranked list returned is a permutation
\* of it; and total is its length.
C29_DocumentOfThisRun ==
    (pc = "done" /\ exc = "none" /\ ~IsNone(ranked)) =>
        /\ ~IsNone(saved)
        /\ LET doc == Val(saved)
           IN  /\ doc.results = results
               /\ doc.total = Len(doc.results)
               /\ SameListings(Val(ranked), doc.results)
               /\ \E cands \in RunCandidates :
                     doc.results = ValidateAll(cands, keywords, {}, <<>>)
               /\ \A i \in 1..Len(doc.results) :
                     /\ is_valid(doc.results[i])
                     /\ ~IsNone(doc.results[i].match_score)
                     /\ \A j \in 1..(i - 1) :
                           doc.results[j].name # doc.results[i].name

\* The second run on a finder has returned: its call admitted two listings,
\* an earlier call had admitted one, the document holds the two in validation
\* order and the ranked list has them the other way round.
C29_Witness ==
    /\ pc = "done" /\ exc = "none" /\ ~IsNone(ranked) /\ ~IsNone(saved)
    /\ runs = 1 /\ nScored = 3
    /\ Len(Val(saved).results) = 2 /\ Val(saved).total = 2
    /\ Val(saved).results[1].name = Villa
    /\ Val(ranked)[1].name = Loft

=========================================================================
